---- MODULE Spec2Model ----
(***************************************************************************)
(* Model of the wolfden-manager store: sections, cards (stations), their   *)
(* countdown timers, the one-second progress interval, the debounced       *)
(* localStorage persistence and the useTimerCalculations hook of a card.   *)
(*                                                                         *)
(* Conventions of the model                                                *)
(*  - An instant (ISO timestamp string in the code) is an integer number   *)
(*    of milliseconds; NullTime stands for null.                           *)
(*  - An optional value (card.timer, a timer handle, a stored blob) is a   *)
(*    sequence of length 0 (undefined / null) or 1.                        *)
(*  - A JavaScript Map is the sequence of its entries <<key, value>> in    *)
(*    insertion order, as Map iteration and Array.from(map.entries()) see  *)
(*    it.                                                                  *)
(*  - progressValue is kept in units of 1/PROGRESS_UNITS percent, so that  *)
(*    (remainingSeconds / 3600) * 100 is an exact integer.                 *)
(***************************************************************************)
EXTENDS Integers, Sequences, FiniteSets, TLC

VARIABLES sections, cardsBySection, now, intervalRef, saveTimeoutRef,
          localStorage, phase, last, calc, hooks

vars == <<sections, cardsBySection, now, intervalRef, saveTimeoutRef,
          localStorage, phase, last, calc, hooks>>

boardVars == <<sections, cardsBySection>>
\* the arguments and results of the time utilities called on their own, and
\* the state of the useTimerCalculations hook of each rendered card
viewVars == <<calc, hooks>>

(***************************************************************************)
(* Program constants                                                       *)
(***************************************************************************)
STORAGE_VERSION == 1
ONE_HOUR_IN_SECONDS == 3600
SAVE_DELAY_MS == 500
TICK_MS == 1000
MS_PER_SECOND == 1000
SECONDS_PER_MINUTE == 60
MAX_PROGRESS_PERCENT == 200
FULL_PROGRESS_PERCENT == 100
HOOK_INTERVAL_MS == 100

MS_PER_MINUTE == SECONDS_PER_MINUTE * MS_PER_SECOND
PROGRESS_UNITS == ONE_HOUR_IN_SECONDS \div FULL_PROGRESS_PERCENT

(***************************************************************************)
(* Bounds of the model                                                     *)
(***************************************************************************)
MaxSections == 2
MaxCards == 2
MaxClockSteps == 1
MaxDuration == 1
MaxTimers == 2
MaxBoardTimers == 1
MaxLifeSteps == 3
MaxLifeCards == 1
MaxLifeTimers == 1
MaxCalcMinutes == 2
MaxCalcSeconds == 3700
MaxHookCards == 1
MaxHookTimers == 1
MaxHookDuration == 2
MaxHookTicks == 2
MaxHookSeconds == 2
MaxHookMinutes == 1
MaxPlayed == 2
MaxFutureCards == 1
MaxFutureMinutes == 3
MaxFutureSeconds == 1
MaxSwapHookCards == 2
MaxSwapHookTimers == 2
MaxSwapHookTicks == 1
MaxNormHours == 2
MaxNormMinutes == 130

SectionIds == 1..MaxSections
CardIds == 1..MaxCards
DefaultSectionName == "Section name"
Names == {"1"}
Durations == {1}
AddMinutes == {0 - 1, 1}

ClockStep == SAVE_DELAY_MS
StartNow == MS_PER_MINUTE
MaxNow == StartNow + MaxClockSteps * ClockStep
NullTime == 0 - 1
Instants == {StartNow - MS_PER_MINUTE, StartNow + MS_PER_SECOND}

(***************************************************************************)
(* Arithmetic helpers                                                      *)
(***************************************************************************)
Abs(x) == IF x < 0 THEN 0 - x ELSE x
Min(a, b) == IF a <= b THEN a ELSE b
Max(a, b) == IF a >= b THEN a ELSE b
\* integer quotient rounded toward zero, as dayjs diff() rounds
TruncDiv(a, b) == IF a >= 0 THEN a \div b ELSE 0 - ((0 - a) \div b)

RECURSIVE SeqMax(_)
SeqMax(s) == IF Len(s) = 1 THEN s[1] ELSE Max(s[1], SeqMax(Tail(s)))

(***************************************************************************)
(* lib/utils/id                                                            *)
(***************************************************************************)
\* ids counted instead of the highest id taken
generateNextIdByCount(existingIds) == Len(existingIds) + 1
\* the first id taken instead of the highest
generateNextIdFirst(existingIds) ==
  IF Len(existingIds) = 0 THEN 1 ELSE existingIds[1] + 1
generateNextId(existingIds) ==
  IF Len(existingIds) = 0 THEN 1 ELSE SeqMax(existingIds) + 1

(***************************************************************************)
(* JavaScript Map                                                          *)
(***************************************************************************)
MapKeys(m) == [i \in 1..Len(m) |-> m[i][1]]
MapHas(m, k) == \E i \in 1..Len(m) : m[i][1] = k
MapIndex(m, k) == CHOOSE i \in 1..Len(m) : m[i][1] = k
\* map.get(k) || []
MapGetOrEmpty(m, k) == IF MapHas(m, k) THEN m[MapIndex(m, k)][2] ELSE <<>>
\* map.set(k, v): an existing key keeps its position, a new key is appended
MapSet(m, k, v) ==
  IF MapHas(m, k)
  THEN [i \in 1..Len(m) |-> IF m[i][1] = k THEN <<k, v>> ELSE m[i]]
  ELSE Append(m, <<k, v>>)
\* the key is left in the map
MapDeleteKeeps(m, k) == m
MapDelete(m, k) == SelectSeq(m, LAMBDA e : e[1] # k)
\* new Map(entries)
RECURSIVE MapFromEntries(_)
MapFromEntries(entries) ==
  IF Len(entries) = 0 THEN <<>>
  ELSE LET e == entries[Len(entries)]
       IN MapSet(MapFromEntries(SubSeq(entries, 1, Len(entries) - 1)), e[1], e[2])

(***************************************************************************)
(* lib/utils/time                                                          *)
(***************************************************************************)
addMinutesToCurrentTime(t, minutes) == t + minutes * MS_PER_MINUTE
addMinutesToTimestamp(timestamp, minutes) == timestamp + minutes * MS_PER_MINUTE
diffMinutes(end, start) == TruncDiv(end - start, MS_PER_MINUTE)
diffSeconds(end, start) == TruncDiv(end - start, MS_PER_SECOND)

\* the start not looked at: always the time left to the end
getRemainingSecondsToEnd(t, endTimestamp, startTimestamp) ==
  IF endTimestamp = NullTime THEN 0 ELSE diffSeconds(endTimestamp, t)
getRemainingSeconds(t, endTimestamp, startTimestamp) ==
  IF endTimestamp = NullTime THEN 0
  ELSE IF startTimestamp # NullTime /\ t < startTimestamp
       THEN diffSeconds(endTimestamp, startTimestamp)
       ELSE diffSeconds(endTimestamp, t)

\* the decay spread over the initial duration instead of the last hour
calculateProgressOfInitial(initialMinutes, remainingSeconds) ==
  IF initialMinutes <= 0 THEN 0
  ELSE IF remainingSeconds < 0
       THEN Min(MAX_PROGRESS_PERCENT * PROGRESS_UNITS,
                FULL_PROGRESS_PERCENT * PROGRESS_UNITS + Abs(remainingSeconds))
       ELSE Max(0, Min(FULL_PROGRESS_PERCENT * PROGRESS_UNITS,
                       TruncDiv(remainingSeconds * FULL_PROGRESS_PERCENT * PROGRESS_UNITS,
                                initialMinutes * SECONDS_PER_MINUTE)))
\* result in units of 1/PROGRESS_UNITS percent
calculateProgress(initialMinutes, remainingSeconds) ==
  IF initialMinutes <= 0 THEN 0
  ELSE IF remainingSeconds < 0
       THEN Min(MAX_PROGRESS_PERCENT * PROGRESS_UNITS,
                FULL_PROGRESS_PERCENT * PROGRESS_UNITS + Abs(remainingSeconds))
       ELSE IF remainingSeconds > ONE_HOUR_IN_SECONDS
            THEN FULL_PROGRESS_PERCENT * PROGRESS_UNITS
            ELSE Max(0, Min(FULL_PROGRESS_PERCENT * PROGRESS_UNITS, remainingSeconds))

isTimerExpired(remainingSeconds) == remainingSeconds < 0

\* the minutes rounded up instead of down
calculateProgressVariantCeil(remainingSeconds) ==
  IF remainingSeconds = 0 THEN "default"
  ELSE LET remainingMinutes == (remainingSeconds + SECONDS_PER_MINUTE - 1) \div SECONDS_PER_MINUTE
           isExpired == remainingSeconds < 0
       IN IF isExpired \/ remainingMinutes <= 10 THEN "destructive"
          ELSE IF remainingMinutes <= 20 THEN "orange"
          ELSE IF remainingMinutes <= 30 THEN "warning"
          ELSE "default"
\* Math.floor(remainingSeconds / 60) is \div, which rounds down
calculateProgressVariant(remainingSeconds) ==
  IF remainingSeconds = 0 THEN "default"
  ELSE LET remainingMinutes == remainingSeconds \div SECONDS_PER_MINUTE
           isExpired == remainingSeconds < 0
       IN IF isExpired \/ remainingMinutes <= 10 THEN "destructive"
          ELSE IF remainingMinutes <= 20 THEN "orange"
          ELSE IF remainingMinutes <= 30 THEN "warning"
          ELSE "default"

\* hours, minutes and seconds as the numbers the string shows, with the
\* leading + of an expired timer
formatRemainingTime(seconds) ==
  LET absSeconds == Abs(seconds)
      hours == absSeconds \div ONE_HOUR_IN_SECONDS
      minutes == (absSeconds % ONE_HOUR_IN_SECONDS) \div SECONDS_PER_MINUTE
      secs == absSeconds % SECONDS_PER_MINUTE
  IN IF absSeconds = 0 THEN [plus |-> FALSE, fields |-> <<0, 0>>]
     ELSE [plus |-> seconds < 0,
           fields |-> IF hours > 0 THEN <<hours, minutes, secs>> ELSE <<minutes, secs>>]

\* JavaScript's %: the remainder has the sign of the dividend
JsRemainder(a, b) == a - b * TruncDiv(a, b)

\* Math.floor(normalizedMinutes / 60) is \div, which rounds down
normalizeTime(hours, minutes) ==
  IF Abs(minutes) >= SECONDS_PER_MINUTE
  THEN LET hoursToAdd == minutes \div SECONDS_PER_MINUTE
           remainder == JsRemainder(minutes, SECONDS_PER_MINUTE)
       IN IF remainder < 0
          THEN [hours |-> hours + hoursToAdd - 1, minutes |-> remainder + SECONDS_PER_MINUTE]
          ELSE [hours |-> hours + hoursToAdd, minutes |-> remainder]
  ELSE [hours |-> hours, minutes |-> minutes]

toTotalMinutes(hours, minutes) == hours * SECONDS_PER_MINUTE + minutes

\* no utility called yet
NoCalc == [initialMinutes |-> 0, remainingSeconds |-> 0, progress |-> <<>>, variant |-> <<>>]
\* no card rendered
NoHooks == <<>>

(***************************************************************************)
(* features/timers: timer service                                          *)
(***************************************************************************)
NoTimer == <<>>
HasTimer(card) == card.timer # NoTimer
TimerOf(card) == card.timer[1]
\* card.timer?.isActive
TimerIsActive(card) == HasTimer(card) /\ TimerOf(card).isActive

createTimer(t, durationMinutes) ==
  [startTime |-> addMinutesToCurrentTime(t, 0),
   endTime |-> addMinutesToCurrentTime(t, durationMinutes),
   initialDurationMinutes |-> durationMinutes,
   isActive |-> TRUE]

createTimerWithDates(startTime, endTime) ==
  [startTime |-> startTime,
   endTime |-> endTime,
   initialDurationMinutes |-> diffMinutes(endTime, startTime),
   isActive |-> TRUE]

updateTimerDates(timer, startTime, endTime) ==
  [timer EXCEPT !.startTime = startTime,
                !.endTime = endTime,
                !.initialDurationMinutes = diffMinutes(endTime, startTime)]

\* the duration kept from going below zero
addTimeToTimerClamped(timer, minutes) ==
  IF ~timer.isActive \/ timer.endTime = NullTime THEN timer
  ELSE [timer EXCEPT !.endTime = addMinutesToTimestamp(timer.endTime, minutes),
                     !.initialDurationMinutes = Max(0, timer.initialDurationMinutes + minutes)]
addTimeToTimer(timer, minutes) ==
  IF ~timer.isActive \/ timer.endTime = NullTime THEN timer
  ELSE [timer EXCEPT !.endTime = addMinutesToTimestamp(timer.endTime, minutes),
                     !.initialDurationMinutes = timer.initialDurationMinutes + minutes]

\* timer is the optional value card.timer
calculateTimerProgress(t, timer) ==
  IF timer = NoTimer \/ ~timer[1].isActive \/ timer[1].endTime = NullTime THEN 0
  ELSE calculateProgress(timer[1].initialDurationMinutes,
                         getRemainingSeconds(t, timer[1].endTime, timer[1].startTime))

\* the cards without an active timer left out of the result
updateCardsProgressActiveOnly(t, cards) ==
  LET active == SelectSeq(cards, LAMBDA c : TimerIsActive(c) /\ TimerOf(c).endTime # NullTime)
  IN [i \in 1..Len(active) |->
        [active[i] EXCEPT !.progressValue = calculateTimerProgress(t, active[i].timer)]]
updateCardsProgress(t, cards) ==
  [i \in 1..Len(cards) |->
     IF TimerIsActive(cards[i]) /\ TimerOf(cards[i]).endTime # NullTime
     THEN [cards[i] EXCEPT !.progressValue = calculateTimerProgress(t, cards[i].timer)]
     ELSE cards[i]]

(***************************************************************************)
(* features/cards and features/sections                                    *)
(***************************************************************************)
CardIdsOf(cards) == [i \in 1..Len(cards) |-> cards[i].id]
SectionIdsOf(secs) == [i \in 1..Len(secs) |-> secs[i].id]
\* String(newId) for the ids of the model
IdName(n) == CASE n = 1 -> "1" [] n = 2 -> "2" [] n = 3 -> "3" [] OTHER -> "n"

createCard(existingCards) ==
  LET newId == generateNextId(CardIdsOf(existingCards))
  IN [id |-> newId, name |-> IdName(newId), progressValue |-> 0, timer |-> NoTimer]

updateCardName(cards, cardId, name) ==
  [i \in 1..Len(cards) |->
     IF cards[i].id = cardId THEN [cards[i] EXCEPT !.name = name] ELSE cards[i]]

deleteCard(cards, cardId) == SelectSeq(cards, LAMBDA c : c.id # cardId)

createSection(existingSections) ==
  [id |-> generateNextId(SectionIdsOf(existingSections)), name |-> DefaultSectionName]

updateSectionName(secs, sectionId, name) ==
  [i \in 1..Len(secs) |->
     IF secs[i].id = sectionId THEN [secs[i] EXCEPT !.name = name] ELSE secs[i]]

deleteSection(secs, sectionId) == SelectSeq(secs, LAMBDA s : s.id # sectionId)

(***************************************************************************)
(* lib/storage: persistence service.  A stored blob is                     *)
(* [kind, version, sections, cardsBySection]; kind "json" is a blob that   *)
(* JSON.parse accepts, kind "garbage" one that it rejects.                 *)
(***************************************************************************)
NoBlob == <<>>
GarbageBlob == <<[kind |-> "garbage", version |-> 0, sections |-> <<>>, cardsBySection |-> <<>>]>>
OldVersionBlob ==
  <<[kind |-> "json", version |-> STORAGE_VERSION + 1, sections |-> <<>>, cardsBySection |-> <<>>]>>

\* JSON.stringify followed by JSON.parse of one card: an undefined timer is
\* dropped by stringify and reads back as undefined; a timer object keeps its
\* four fields
jsonCard(card) ==
  [id |-> card.id, name |-> card.name, progressValue |-> card.progressValue,
   timer |-> IF card.timer = NoTimer THEN NoTimer
             ELSE <<[startTime |-> card.timer[1].startTime,
                     endTime |-> card.timer[1].endTime,
                     initialDurationMinutes |-> card.timer[1].initialDurationMinutes,
                     isActive |-> card.timer[1].isActive]>>]

jsonSection(section) == [id |-> section.id, name |-> section.name]

\* the Map handed to JSON.stringify as it is, which writes none of its entries
serializeStateWithoutEntries(state) ==
  <<[kind |-> "json",
     version |-> STORAGE_VERSION,
     sections |-> [i \in 1..Len(state.sections) |-> jsonSection(state.sections[i])],
     cardsBySection |-> <<>>]>>
\* the string written by saveState, as JSON.parse reads it back
serializeState(state) ==
  <<[kind |-> "json",
     version |-> STORAGE_VERSION,
     sections |-> [i \in 1..Len(state.sections) |-> jsonSection(state.sections[i])],
     cardsBySection |->
       [i \in 1..Len(state.cardsBySection) |->
          <<state.cardsBySection[i][1],
            [j \in 1..Len(state.cardsBySection[i][2]) |->
               jsonCard(state.cardsBySection[i][2][j])]>>]]>>

\* the version not looked at
loadStateAnyVersion(stored) ==
  IF stored = NoBlob THEN <<>>
  ELSE IF stored[1].kind # "json" THEN <<>>
  ELSE <<[sections |-> stored[1].sections,
          cardsBySection |-> MapFromEntries(stored[1].cardsBySection)]>>
\* loadState: <<>> for null, <<state>> otherwise
loadState(stored) ==
  IF stored = NoBlob THEN <<>>
  ELSE IF stored[1].kind # "json" THEN <<>>
  ELSE IF stored[1].version # STORAGE_VERSION THEN <<>>
  ELSE <<[sections |-> stored[1].sections,
          cardsBySection |-> MapFromEntries(stored[1].cardsBySection)]>>

\* the load effect's recomputation of progress for every card with a timer
recalculateLoaded(t, map) ==
  [i \in 1..Len(map) |->
     <<map[i][1],
       [j \in 1..Len(map[i][2]) |->
          IF HasTimer(map[i][2][j])
          THEN [map[i][2][j] EXCEPT !.progressValue =
                                      calculateTimerProgress(t, map[i][2][j].timer)]
          ELSE map[i][2][j]]>>]

(***************************************************************************)
(* store/app-store: the state updaters of the handlers                     *)
(***************************************************************************)
\* array.findIndex(c => c.id === id): 0 stands for -1
findIndex(cards, cardId) ==
  IF \E i \in 1..Len(cards) : cards[i].id = cardId
  THEN CHOOSE i \in 1..Len(cards) :
         cards[i].id = cardId /\ \A j \in 1..(i - 1) : cards[j].id # cardId
  ELSE 0

\* updateCardInSection with an updater given as the card it returns
startTimerCard(t, card, durationMinutes) ==
  LET timer == createTimer(t, durationMinutes)
  IN [card EXCEPT !.timer = <<timer>>,
                  !.progressValue = calculateTimerProgress(t, <<timer>>)]

startTimerWithDatesCard(t, card, startTime, endTime) ==
  LET timer == createTimerWithDates(startTime, endTime)
  IN [card EXCEPT !.timer = <<timer>>,
                  !.progressValue = calculateTimerProgress(t, <<timer>>)]

\* the condition left out: a card without a timer is given the range
updateTimerDatesCardUnconditional(t, card, startTime, endTime) ==
  LET updatedTimer == IF HasTimer(card) THEN updateTimerDates(TimerOf(card), startTime, endTime)
                      ELSE createTimerWithDates(startTime, endTime)
  IN [card EXCEPT !.timer = <<updatedTimer>>,
                  !.progressValue = calculateTimerProgress(t, <<updatedTimer>>)]
updateTimerDatesCard(t, card, startTime, endTime) ==
  IF ~TimerIsActive(card) THEN card
  ELSE LET updatedTimer == updateTimerDates(TimerOf(card), startTime, endTime)
       IN [card EXCEPT !.timer = <<updatedTimer>>,
                       !.progressValue = calculateTimerProgress(t, <<updatedTimer>>)]

addTimeToTimerCard(t, card, minutes) ==
  IF ~TimerIsActive(card) THEN card
  ELSE LET updatedTimer == addTimeToTimer(TimerOf(card), minutes)
       IN [card EXCEPT !.timer = <<updatedTimer>>,
                       !.progressValue = calculateTimerProgress(t, <<updatedTimer>>)]

\* the timer switched off with null timestamps instead of removed
clearTimerCardInactive(card) ==
  [card EXCEPT !.timer = <<[startTime |-> NullTime, endTime |-> NullTime,
                            initialDurationMinutes |-> 0, isActive |-> FALSE]>>,
               !.progressValue = 0]
clearTimerCard(card) == [card EXCEPT !.timer = NoTimer, !.progressValue = 0]

\* the tick's updater: a new Map with the same keys in the same order
tickUpdater(t, prev) ==
  [i \in 1..Len(prev) |-> <<prev[i][1], updateCardsProgress(t, prev[i][2])>>]

swapFound(prev, sectionId1, cardId1, sectionId2, cardId2) ==
  /\ findIndex(MapGetOrEmpty(prev, sectionId1), cardId1) # 0
  /\ findIndex(MapGetOrEmpty(prev, sectionId2), cardId2) # 0

\* the two lists written back before the indices are looked at
swapMissWritesBack(prev, sectionId1, sectionId2) ==
  MapSet(MapSet(prev, sectionId1, MapGetOrEmpty(prev, sectionId1)),
         sectionId2, MapGetOrEmpty(prev, sectionId2))
\* if (card1Index === -1 || card2Index === -1) return prev
swapMiss(prev, sectionId1, sectionId2) == prev

\* the second card overwritten with the timer it already has
swapWithinListOneSided(cards, card1Index, card2Index, timer1, timer2, progress1, progress2) ==
  [i \in 1..Len(cards) |->
     IF i = card1Index
     THEN [cards[i] EXCEPT !.timer = timer2, !.progressValue = progress1]
     ELSE IF i = card2Index
          THEN [cards[i] EXCEPT !.timer = timer2, !.progressValue = progress1]
          ELSE cards[i]]
\* sectionId1 === sectionId2: one map() over the one list
swapWithinList(cards, card1Index, card2Index, timer1, timer2, progress1, progress2) ==
  [i \in 1..Len(cards) |->
     IF i = card1Index
     THEN [cards[i] EXCEPT !.timer = timer2, !.progressValue = progress1]
     ELSE IF i = card2Index
          THEN [cards[i] EXCEPT !.timer = timer1, !.progressValue = progress2]
          ELSE cards[i]]

\* an absent timer not handed over: the card keeps the timer it has
swapSideSkipsAbsent(cards, cardIndex, timer, progress) ==
  [i \in 1..Len(cards) |->
     IF i = cardIndex /\ timer # NoTimer
     THEN [cards[i] EXCEPT !.timer = timer, !.progressValue = progress]
     ELSE cards[i]]
\* the timer taken from the card and the other card's timer not put in
swapSideTakesOnly(cards, cardIndex, timer, progress) ==
  [i \in 1..Len(cards) |->
     IF i = cardIndex
     THEN [cards[i] EXCEPT !.timer = NoTimer, !.progressValue = 0]
     ELSE cards[i]]
\* sectionId1 !== sectionId2: the map() over one of the two lists
swapSide(cards, cardIndex, timer, progress) ==
  [i \in 1..Len(cards) |->
     IF i = cardIndex
     THEN [cards[i] EXCEPT !.timer = timer, !.progressValue = progress]
     ELSE cards[i]]

swapUpdater(t, prev, sectionId1, cardId1, sectionId2, cardId2) ==
  LET originalCards1 == MapGetOrEmpty(prev, sectionId1)
      originalCards2 == MapGetOrEmpty(prev, sectionId2)
      card1Index == findIndex(originalCards1, cardId1)
      card2Index == findIndex(originalCards2, cardId2)
  IN IF card1Index = 0 \/ card2Index = 0 THEN swapMiss(prev, sectionId1, sectionId2)
     ELSE LET timer1 == originalCards1[card1Index].timer
              timer2 == originalCards2[card2Index].timer
              progress1 == IF timer2 # NoTimer THEN calculateTimerProgress(t, timer2) ELSE 0
              progress2 == IF timer1 # NoTimer THEN calculateTimerProgress(t, timer1) ELSE 0
          IN IF sectionId1 = sectionId2
             THEN MapSet(prev, sectionId1,
                         swapWithinList(originalCards1, card1Index, card2Index,
                                        timer1, timer2, progress1, progress2))
             ELSE MapSet(MapSet(prev, sectionId1,
                                swapSide(originalCards1, card1Index, timer2, progress1)),
                         sectionId2,
                         swapSide(originalCards2, card2Index, timer1, progress2))

\* Query API
getCardsBySection(sectionId) == MapGetOrEmpty(cardsBySection, sectionId)

\* getAllCards: the cards of the sections of the list, section after section
RECURSIVE getAllCards(_, _)
getAllCards(secs, map) ==
  IF Len(secs) = 0 THEN <<>>
  ELSE LET section == secs[Len(secs)]
           cards == MapGetOrEmpty(map, section.id)
       IN getAllCards(SubSeq(secs, 1, Len(secs) - 1), map)
            \o [j \in 1..Len(cards) |->
                  [sectionId |-> section.id, sectionName |-> section.name, card |-> cards[j]]]

(***************************************************************************)
(* History of the last step taken (not program state).  op is the          *)
(* operation.  The deletion of a section records in c1 the number of       *)
(* timers it removed and, when it deleted the highest section id, n = 1    *)
(* with that id in s1; the deletion of the highest card id of a section    *)
(* has n = 1 with the section in s1 and the id in c1.                      *)
(* An addition that directly follows such a deletion in the same           *)
(* collection has n = 1 and carries the freed id.  An extension and a      *)
(* rescheduling record n = 1 when the addressed card exists and in found   *)
(* whether it holds an active timer; an extension also records that timer  *)
(* in pre1.  An interval callback of a card's hook records in found        *)
(* whether the hook held the timer for expired before it.  A swap          *)
(* records whether both cards were found, n = 1 inside one section, n = 2  *)
(* across two sections, n = 3 when a section id was unknown, n = 4 when    *)
(* only a card id was, and the timers pre1 and pre2 the two cards held     *)
(* before it.  In the life of the provider the passage of time records     *)
(* n = 1 when a write has failed and only time has passed since, and the   *)
(* unmount records in found whether a save was armed when it ran.  The     *)
(* mount is "mounting" when its load effect has set a loaded state and     *)
(* "mount" when that state is rendered or there was none, with found       *)
(* telling whether a board was loaded.                                     *)
(***************************************************************************)
OpRecord(op, s1, c1, n, found, pre1, pre2) ==
  [op |-> op, s1 |-> s1, c1 |-> c1, n |-> n, found |-> found, pre1 |-> pre1, pre2 |-> pre2]
Op0(op) == OpRecord(op, 0, 0, 0, FALSE, NoTimer, NoTimer)
Op2(op, s1, c1, n) == OpRecord(op, s1, c1, n, FALSE, NoTimer, NoTimer)

timerCount(cards) == Cardinality({j \in 1..Len(cards) : HasTimer(cards[j])})

\* card.id === cardId for some card of the section's list
cardExists(map, sectionId, cardId) == findIndex(MapGetOrEmpty(map, sectionId), cardId) # 0
cardAt(map, sectionId, cardId) ==
  MapGetOrEmpty(map, sectionId)[findIndex(MapGetOrEmpty(map, sectionId), cardId)]

updateCardInSection(prev, sectionId, cardId, updater(_)) ==
  LET currentCards == MapGetOrEmpty(prev, sectionId)
  IN MapSet(prev, sectionId,
            [i \in 1..Len(currentCards) |->
               IF currentCards[i].id = cardId THEN updater(currentCards[i])
               ELSE currentCards[i]])

(***************************************************************************)
(* store/app-store: the handlers, as transitions of the board              *)
(***************************************************************************)
\* the nested setCardsBySection forgotten
handleAddSectionNoKey ==
  /\ sections' = Append(sections, createSection(sections))
  /\ cardsBySection' = cardsBySection
  /\ last' = IF last.op = "deleteSection" /\ last.n = 1
             THEN Op2("addSection", last.s1, 0, 1)
             ELSE Op0("addSection")
handleAddSection ==
  LET newSection == createSection(sections)
  IN /\ sections' = Append(sections, newSection)
     /\ cardsBySection' = MapSet(cardsBySection, newSection.id, <<>>)
     /\ last' = IF last.op = "deleteSection" /\ last.n = 1
                THEN Op2("addSection", last.s1, 0, 1)
                ELSE Op0("addSection")

handleUpdateSectionName(id, name) ==
  /\ sections' = updateSectionName(sections, id, name)
  /\ cardsBySection' = cardsBySection
  /\ last' = Op0("renameSection")

handleDeleteSection(id) ==
  /\ sections' = deleteSection(sections, id)
  /\ cardsBySection' = MapDelete(cardsBySection, id)
  /\ last' = IF Len(sections) > 0 /\ id = SeqMax(SectionIdsOf(sections))
             THEN Op2("deleteSection", id, timerCount(MapGetOrEmpty(cardsBySection, id)), 1)
             ELSE Op2("deleteSection", 0, timerCount(MapGetOrEmpty(cardsBySection, id)), 0)

handleAddCard(sectionId) ==
  LET currentCards == MapGetOrEmpty(cardsBySection, sectionId)
      newCard == createCard(currentCards)
  IN /\ cardsBySection' = MapSet(cardsBySection, sectionId, Append(currentCards, newCard))
     /\ sections' = sections
     /\ last' = IF last.op = "deleteCard" /\ last.n = 1 /\ last.s1 = sectionId
                THEN Op2("addCard", sectionId, last.c1, 1)
                ELSE Op0("addCard")

handleUpdateCardName(sectionId, cardId, name) ==
  /\ cardsBySection' =
       MapSet(cardsBySection, sectionId,
              updateCardName(MapGetOrEmpty(cardsBySection, sectionId), cardId, name))
  /\ sections' = sections
  /\ last' = Op0("renameCard")

handleDeleteCard(sectionId, cardId) ==
  LET currentCards == MapGetOrEmpty(cardsBySection, sectionId)
  IN /\ cardsBySection' = MapSet(cardsBySection, sectionId, deleteCard(currentCards, cardId))
     /\ sections' = sections
     /\ last' = IF Len(currentCards) > 0 /\ cardId = SeqMax(CardIdsOf(currentCards))
                THEN Op2("deleteCard", sectionId, cardId, 1)
                ELSE Op0("deleteCard")

handleStartTimer(sectionId, cardId, durationMinutes) ==
  /\ cardsBySection' =
       updateCardInSection(cardsBySection, sectionId, cardId,
                           LAMBDA card : startTimerCard(now, card, durationMinutes))
  /\ sections' = sections
  /\ last' = Op0("startTimer")

handleStartTimerWithDates(sectionId, cardId, startTime, endTime) ==
  /\ cardsBySection' =
       updateCardInSection(cardsBySection, sectionId, cardId,
                           LAMBDA card : startTimerWithDatesCard(now, card, startTime, endTime))
  /\ sections' = sections
  /\ last' = Op0("startTimerWithDates")

handleUpdateTimerDates(sectionId, cardId, startTime, endTime) ==
  /\ cardsBySection' =
       updateCardInSection(cardsBySection, sectionId, cardId,
                           LAMBDA card : updateTimerDatesCard(now, card, startTime, endTime))
  /\ sections' = sections
  /\ last' = OpRecord("updateTimerDates", 0, 0,
                      IF cardExists(cardsBySection, sectionId, cardId) THEN 1 ELSE 0,
                      /\ cardExists(cardsBySection, sectionId, cardId)
                      /\ TimerIsActive(cardAt(cardsBySection, sectionId, cardId)),
                      NoTimer, NoTimer)

handleAddTimeToTimer(sectionId, cardId, minutes) ==
  /\ cardsBySection' =
       updateCardInSection(cardsBySection, sectionId, cardId,
                           LAMBDA card : addTimeToTimerCard(now, card, minutes))
  /\ sections' = sections
  /\ last' = IF /\ cardExists(cardsBySection, sectionId, cardId)
                /\ TimerIsActive(cardAt(cardsBySection, sectionId, cardId))
             THEN OpRecord("addTimeToTimer", 0, 0, 1, TRUE,
                           cardAt(cardsBySection, sectionId, cardId).timer, NoTimer)
             ELSE Op2("addTimeToTimer", 0, 0,
                      IF cardExists(cardsBySection, sectionId, cardId) THEN 1 ELSE 0)

handleClearTimer(sectionId, cardId) ==
  /\ cardsBySection' =
       updateCardInSection(cardsBySection, sectionId, cardId, clearTimerCard)
  /\ sections' = sections
  /\ last' = Op0("clearTimer")

handleSwapCardTimers(sectionId1, cardId1, sectionId2, cardId2) ==
  LET found == swapFound(cardsBySection, sectionId1, cardId1, sectionId2, cardId2)
  IN /\ cardsBySection' =
          swapUpdater(now, cardsBySection, sectionId1, cardId1, sectionId2, cardId2)
     /\ sections' = sections
     /\ last' = OpRecord("swap", 0, 0,
                         IF found THEN (IF sectionId1 = sectionId2 THEN 1 ELSE 2)
                         ELSE IF /\ MapHas(cardsBySection, sectionId1)
                                 /\ MapHas(cardsBySection, sectionId2)
                              THEN 4 ELSE 3,
                         found,
                         IF found THEN cardAt(cardsBySection, sectionId1, cardId1).timer
                         ELSE NoTimer,
                         IF found THEN cardAt(cardsBySection, sectionId2, cardId2).timer
                         ELSE NoTimer)

\* the callback working on the Map of the render that set the interval up,
\* the empty Map of the first render, instead of on prev
tickFromClosure ==
  /\ cardsBySection' = tickUpdater(now, <<>>)
  /\ sections' = sections
  /\ last' = Op0("tick")
\* the interval callback
tick ==
  /\ cardsBySection' = tickUpdater(now, cardsBySection)
  /\ sections' = sections
  /\ last' = Op0("tick")

\* save followed by load: what a reload of the page makes of a saved board
reloadedState(t, state) ==
  LET saved == loadState(serializeState(state))[1]
  IN [sections |-> saved.sections,
      cardsBySection |-> recalculateLoaded(t, saved.cardsBySection)]

reload ==
  LET loaded == reloadedState(now, [sections |-> sections, cardsBySection |-> cardsBySection])
  IN /\ sections' = loaded.sections
     /\ cardsBySection' = loaded.cardsBySection
     /\ last' = Op0("reload")

(***************************************************************************)
(* Bounded inputs of the handlers                                          *)
(***************************************************************************)
activeTimerCount(map) ==
  LET RECURSIVE count(_)
      count(i) ==
        IF i > Len(map) THEN 0
        ELSE Cardinality({j \in 1..Len(map[i][2]) : HasTimer(map[i][2][j])}) + count(i + 1)
  IN count(1)

durationInBounds(map, sectionId, cardId, minutes) ==
  \A i \in 1..Len(MapGetOrEmpty(map, sectionId)) :
    LET card == MapGetOrEmpty(map, sectionId)[i]
    IN (card.id = cardId /\ TimerIsActive(card))
         => Abs(TimerOf(card).initialDurationMinutes + minutes) <= MaxDuration

persistenceVars == <<intervalRef, saveTimeoutRef, localStorage, phase>>

AddSection ==
  /\ generateNextId(SectionIdsOf(sections)) <= MaxSections
  /\ handleAddSection
RenameSection(S, N) == \E id \in S, name \in N : handleUpdateSectionName(id, name)
DeleteSection(S) == \E id \in S : handleDeleteSection(id)
AddCard(S, maxCards) ==
  \E s \in S :
    /\ generateNextId(CardIdsOf(MapGetOrEmpty(cardsBySection, s))) <= maxCards
    /\ handleAddCard(s)
RenameCard(S, C, N) == \E s \in S, c \in C, name \in N : handleUpdateCardName(s, c, name)
DeleteCard(S, C) == \E s \in S, c \in C : handleDeleteCard(s, c)
StartTimer(S, C, D, maxTimers) ==
  \E s \in S, c \in C, d \in D :
    /\ handleStartTimer(s, c, d)
    /\ activeTimerCount(cardsBySection') <= maxTimers
StartTimerWithDates(S, C, R, maxTimers) ==
  \E s \in S, c \in C, r \in R :
    /\ handleStartTimerWithDates(s, c, r[1], r[2])
    /\ activeTimerCount(cardsBySection') <= maxTimers
UpdateTimerDates(S, C, R) ==
  \E s \in S, c \in C, r \in R : handleUpdateTimerDates(s, c, r[1], r[2])
AddTimeToTimer(S, C, M) ==
  \E s \in S, c \in C, m \in M :
    /\ durationInBounds(cardsBySection, s, c, m)
    /\ handleAddTimeToTimer(s, c, m)
ClearTimer(S, C) == \E s \in S, c \in C : handleClearTimer(s, c)
SwapCardTimers(S, C) ==
  \E s1 \in S, c1 \in C, s2 \in S, c2 \in C : handleSwapCardTimers(s1, c1, s2, c2)

\* inputs of SpecBoard: every handler, one kind of timer
BoardDurations == {1}
BoardRanges == {<<StartNow - MS_PER_MINUTE, StartNow + MS_PER_SECOND>>}
BoardMinutes == {0 - 1, 1}
BoardTimerCards == {1}

Handler ==
  \/ AddSection
  \/ RenameSection(SectionIds, Names)
  \/ DeleteSection(SectionIds)
  \/ AddCard(SectionIds, MaxCards)
  \/ RenameCard(SectionIds, CardIds, Names)
  \/ DeleteCard(SectionIds, CardIds)
  \/ StartTimer(SectionIds, BoardTimerCards, BoardDurations, MaxBoardTimers)
  \/ StartTimerWithDates(SectionIds, BoardTimerCards, BoardRanges, MaxBoardTimers)
  \/ UpdateTimerDates(SectionIds, BoardTimerCards, BoardRanges)
  \/ AddTimeToTimer(SectionIds, BoardTimerCards, BoardMinutes)
  \/ ClearTimer(SectionIds, BoardTimerCards)
  \/ SwapCardTimers(SectionIds, BoardTimerCards)

(***************************************************************************)
(* SpecBoard: the in-memory board under every handler, the tick, the       *)
(* passage of time and a reload of the saved board; the persistence        *)
(* timers are left out.                                                    *)
(***************************************************************************)
InitBoard ==
  /\ sections = <<>>
  /\ cardsBySection = <<>>
  /\ now = StartNow
  /\ intervalRef = <<>>
  /\ saveTimeoutRef = <<>>
  /\ localStorage = NoBlob
  /\ phase = "live"
  /\ last = Op0("init")
  /\ calc = NoCalc
  /\ hooks = NoHooks

BoardHandler == Handler /\ UNCHANGED <<now, persistenceVars, viewVars>>
BoardTick == tick /\ UNCHANGED <<now, persistenceVars, viewVars>>
BoardReload == reload /\ UNCHANGED <<now, persistenceVars, viewVars>>
BoardAdvance ==
  /\ now + ClockStep <= MaxNow
  /\ now' = now + ClockStep
  /\ last' = Op0("advance")
  /\ UNCHANGED <<sections, cardsBySection, persistenceVars, viewVars>>

NextBoard == BoardHandler \/ BoardTick \/ BoardReload \/ BoardAdvance

SpecBoard == InitBoard /\ [][NextBoard]_vars

(***************************************************************************)
(* SpecTimers: one timer at a time on a board that only grows (sections    *)
(* and cards are added, none is renamed or deleted), under every timer     *)
(* handler with valid, reversed and empty date ranges, the swap, the tick, *)
(* the passage of time and a reload.                                       *)
(***************************************************************************)
TimerRanges == Instants \X Instants

TimerHandler ==
  \/ AddSection
  \/ AddCard(SectionIds, MaxCards)
  \/ StartTimer(SectionIds, CardIds, Durations, MaxBoardTimers)
  \/ StartTimerWithDates(SectionIds, CardIds, TimerRanges, MaxBoardTimers)
  \/ UpdateTimerDates(SectionIds, CardIds, TimerRanges)
  \/ AddTimeToTimer(SectionIds, CardIds, AddMinutes)
  \/ ClearTimer(SectionIds, CardIds)
  \/ SwapCardTimers(SectionIds, CardIds)

TimersHandler == TimerHandler /\ UNCHANGED <<now, persistenceVars, viewVars>>

NextTimers == TimersHandler \/ BoardTick \/ BoardReload \/ BoardAdvance

SpecTimers == InitBoard /\ [][NextTimers]_vars

(***************************************************************************)
(* SpecSwap: up to MaxTimers timers at once on a board that only grows,    *)
(* under the swap, the start and removal of a timer, the tick, the passage *)
(* of time and a reload.                                                   *)
(***************************************************************************)
SwapHandler ==
  \/ AddSection
  \/ AddCard(SectionIds, MaxCards)
  \/ StartTimer(SectionIds, CardIds, Durations, MaxTimers)
  \/ ClearTimer(SectionIds, CardIds)
  \/ SwapCardTimers(SectionIds, CardIds)

SwapsHandler == SwapHandler /\ UNCHANGED <<now, persistenceVars, viewVars>>

NextSwap == SwapsHandler \/ BoardTick \/ BoardReload \/ BoardAdvance

SpecSwap == InitBoard /\ [][NextSwap]_vars

(***************************************************************************)
(* Spec: the life of the provider.  phase is "constructed" before the      *)
(* effects have run, "mounted" when they have run and the state the load   *)
(* effect has set is not rendered yet, "live" from then on and "down"      *)
(* after the cleanups.  The render of the loaded state follows the effects *)
(* before time passes.                                                     *)
(* intervalRef and saveTimeoutRef hold the armed timers: the instant the   *)
(* interval fires next, and the instant the save is due with the state its *)
(* closure captured.  A state update and the render and effects it causes  *)
(* are one step.                                                           *)
(***************************************************************************)
LifeTimerCards == 1..MaxLifeCards
MaxLifeNow == StartNow + MaxLifeSteps * ClockStep
\* a board written in an earlier life of the page: one renamed section
StoredBoardBlob ==
  serializeState([sections |-> <<[id |-> 1, name |-> "1"]>>, cardsBySection |-> <<<<1, <<>>>>>>])
StoredAtStart == {NoBlob, GarbageBlob, OldVersionBlob, StoredBoardBlob}

Init ==
  /\ sections = <<>>
  /\ cardsBySection = <<>>
  /\ now = StartNow
  /\ intervalRef = <<>>
  /\ saveTimeoutRef = <<>>
  /\ localStorage \in StoredAtStart
  /\ phase = "constructed"
  /\ last = Op0("init")
  /\ calc = NoCalc
  /\ hooks = NoHooks

\* the save effect: the previous timeout cleared, a new one armed
armSave(t, newSections, newCardsBySection) ==
  <<[due |-> t + SAVE_DELAY_MS,
     state |-> [sections |-> newSections, cardsBySection |-> newCardsBySection]]>>

\* mount: the effects of the first render.  The load effect sets the loaded
\* state, which is rendered next, or finds nothing to load; the save effect
\* arms a save of the initial state; the interval effect sets the interval
Mount ==
  /\ phase = "constructed"
  /\ \A saved \in {loadState(localStorage)} :
       /\ phase' = IF saved # <<>> THEN "mounted" ELSE "live"
       /\ last' = OpRecord(IF saved # <<>> THEN "mounting" ELSE "mount", 0, 0, 0,
                           saved # <<>>, NoTimer, NoTimer)
  /\ saveTimeoutRef' = armSave(now, sections, cardsBySection)
  /\ intervalRef' = <<now + TICK_MS>>
  /\ UNCHANGED <<sections, cardsBySection, now, localStorage, viewVars>>

\* the save effect not run again: the timeout armed at the mount stays
RenderLoadedKeepsTimeout ==
  /\ phase = "mounted"
  /\ phase' = "live"
  /\ \A saved \in {loadState(localStorage)} :
       /\ sections' = saved[1].sections
       /\ cardsBySection' = recalculateLoaded(now, saved[1].cardsBySection)
  /\ saveTimeoutRef' = saveTimeoutRef
  /\ last' = OpRecord("mount", 0, 0, 0, TRUE, NoTimer, NoTimer)
  /\ UNCHANGED <<now, intervalRef, localStorage, viewVars>>
\* the render of the state the load effect has set: the save effect's
\* cleanup clears the timeout armed at the mount and the effect arms a new
\* one with the loaded state
RenderLoaded ==
  /\ phase = "mounted"
  /\ phase' = "live"
  /\ \A saved \in {loadState(localStorage)} :
       /\ sections' = saved[1].sections
       /\ cardsBySection' = recalculateLoaded(now, saved[1].cardsBySection)
  /\ saveTimeoutRef' = armSave(now, sections', cardsBySection')
  /\ last' = OpRecord("mount", 0, 0, 0, TRUE, NoTimer, NoTimer)
  /\ UNCHANGED <<now, intervalRef, localStorage, viewVars>>

LifeHandler ==
  \/ AddSection
  \/ AddCard(SectionIds, MaxLifeCards)
  \/ StartTimer(SectionIds, LifeTimerCards, Durations, MaxLifeTimers)
  \/ SwapCardTimers(SectionIds, LifeTimerCards)

\* a handler while mounted; the save effect runs again when the updater
\* returned a new array or Map, not when the swap returned prev
Handle ==
  /\ phase = "live"
  /\ LifeHandler
  /\ saveTimeoutRef' = IF last'.op = "swap" /\ ~last'.found THEN saveTimeoutRef
                       ELSE armSave(now, sections', cardsBySection')
  /\ UNCHANGED <<now, intervalRef, localStorage, phase, viewVars>>

\* the interval callback, when it is due: it runs as long as the interval
\* has not been cleared
Tick ==
  /\ intervalRef = <<now>>
  /\ tick
  /\ intervalRef' = <<now + TICK_MS>>
  /\ saveTimeoutRef' = armSave(now, sections', cardsBySection')
  /\ UNCHANGED <<now, localStorage, phase, viewVars>>

\* the save timeout, when it is due and has not been cleared: saveState
\* writes the captured state, or setItem throws and the stored blob stays
SaveFire ==
  /\ saveTimeoutRef # <<>>
  /\ saveTimeoutRef[1].due = now
  /\ \E written \in BOOLEAN :
       /\ localStorage' = IF written THEN serializeState(saveTimeoutRef[1].state)
                          ELSE localStorage
       /\ last' = OpRecord("save", 0, 0, 0, written, NoTimer, NoTimer)
  /\ saveTimeoutRef' = <<>>
  /\ UNCHANGED <<sections, cardsBySection, now, intervalRef, phase, viewVars>>

\* time passes, never past an armed timer
Advance ==
  /\ now + ClockStep <= MaxLifeNow
  /\ phase # "mounted"
  /\ intervalRef # <<>> => intervalRef[1] > now
  /\ saveTimeoutRef # <<>> => saveTimeoutRef[1].due > now
  /\ now' = now + ClockStep
  /\ last' = Op2("advance", 0, 0,
                 IF \/ last.op = "save" /\ ~last.found
                    \/ last.op = "advance" /\ last.n = 1
                 THEN 1 ELSE 0)
  /\ UNCHANGED <<sections, cardsBySection, intervalRef, saveTimeoutRef, localStorage, phase,
                 viewVars>>

\* the cleanup of the save effect left out
TeardownKeepsSaveTimeout ==
  /\ phase = "live"
  /\ phase' = "down"
  /\ intervalRef' = <<>>
  /\ saveTimeoutRef' = saveTimeoutRef
  /\ last' = OpRecord("teardown", 0, 0, 0, saveTimeoutRef # <<>>, NoTimer, NoTimer)
  /\ UNCHANGED <<sections, cardsBySection, now, localStorage, viewVars>>
\* unmount: the cleanups of the save effect and of the interval effect
Teardown ==
  /\ phase = "live"
  /\ phase' = "down"
  /\ intervalRef' = <<>>
  /\ saveTimeoutRef' = <<>>
  /\ last' = OpRecord("teardown", 0, 0, 0, saveTimeoutRef # <<>>, NoTimer, NoTimer)
  /\ UNCHANGED <<sections, cardsBySection, now, localStorage, viewVars>>

\* the page is opened again: useState's initial values
Restart ==
  /\ phase = "down"
  /\ phase' = "constructed"
  /\ sections' = <<>>
  /\ cardsBySection' = <<>>
  /\ last' = Op0("restart")
  /\ UNCHANGED <<now, intervalRef, saveTimeoutRef, localStorage, viewVars>>

Next ==
  Mount \/ RenderLoaded \/ Handle \/ Tick \/ SaveFire \/ Advance \/ Teardown \/ Restart

Spec == Init /\ [][Next]_vars

(***************************************************************************)
(* SpecCalc: calculateProgress and calculateProgressVariant called on      *)
(* their own, on every pair of arguments of a bounded range.               *)
(***************************************************************************)
CalcMinutes == (0 - 1)..MaxCalcMinutes
CalcSeconds == (0 - MaxCalcSeconds)..MaxCalcSeconds

InitCalc ==
  /\ sections = <<>>
  /\ cardsBySection = <<>>
  /\ now = StartNow
  /\ intervalRef = <<>>
  /\ saveTimeoutRef = <<>>
  /\ localStorage = NoBlob
  /\ phase = "live"
  /\ last = Op0("init")
  /\ calc \in {[NoCalc EXCEPT !.initialMinutes = m, !.remainingSeconds = r] :
                 m \in CalcMinutes, r \in CalcSeconds}
  /\ hooks = NoHooks

CalcProgress ==
  /\ calc.progress = <<>>
  /\ calc' = [calc EXCEPT !.progress =
                            <<calculateProgress(calc.initialMinutes, calc.remainingSeconds)>>]
  /\ UNCHANGED <<sections, cardsBySection, now, persistenceVars, last, hooks>>

CalcVariant ==
  /\ calc.variant = <<>>
  /\ calc' = [calc EXCEPT !.variant = <<calculateProgressVariant(calc.remainingSeconds)>>]
  /\ UNCHANGED <<sections, cardsBySection, now, persistenceVars, last, hooks>>

NextCalc == CalcProgress \/ CalcVariant

SpecCalc == InitCalc /\ [][NextCalc]_vars

(***************************************************************************)
(* SpecNormalize: normalizeTime called on its own, on every pair of hours  *)
(* and minutes of a bounded range, negative values included.               *)
(***************************************************************************)
NormHours == (0 - MaxNormHours)..MaxNormHours
NormMinutes == (0 - MaxNormMinutes)..MaxNormMinutes

InitNormalize ==
  /\ sections = <<>>
  /\ cardsBySection = <<>>
  /\ now = StartNow
  /\ intervalRef = <<>>
  /\ saveTimeoutRef = <<>>
  /\ localStorage = NoBlob
  /\ phase = "live"
  /\ last = Op0("init")
  /\ calc \in {[hours |-> h, minutes |-> m, normalized |-> <<>>] :
                 h \in NormHours, m \in NormMinutes}
  /\ hooks = NoHooks

NormalizeTime ==
  /\ calc.normalized = <<>>
  /\ calc' = [calc EXCEPT !.normalized = <<normalizeTime(calc.hours, calc.minutes)>>]
  /\ UNCHANGED <<sections, cardsBySection, now, persistenceVars, last, hooks>>

NextNormalize == NormalizeTime

SpecNormalize == InitNormalize /\ [][NextNormalize]_vars

(***************************************************************************)
(* hooks/use-timer-calculations: the hook of one rendered card.  Its state *)
(* is currentTimestamp, the two refs, the memoised calculations, the       *)
(* instant its interval is due next and the number of calls of             *)
(* playTimerExpiredSound it has made.  A render and the effects it causes  *)
(* are one step; the effects run in the order of their declaration.        *)
(***************************************************************************)
\* timer?.isActive && timer.endTime
timerUsable(timer) ==
  timer # NoTimer /\ timer[1].isActive /\ timer[1].endTime # NullTime
\* timer?.isActive
timerOn(timer) == timer # NoTimer /\ timer[1].isActive

\* the dependency arrays: timer?.isActive, timer?.endTime, timer?.startTime,
\* timer?.initialDurationMinutes, undefined being <<>>
depIsActive(timer) == IF timer = NoTimer THEN <<>> ELSE <<timer[1].isActive>>
depEndTime(timer) == IF timer = NoTimer THEN <<>> ELSE <<timer[1].endTime>>
depStartTime(timer) == IF timer = NoTimer THEN <<>> ELSE <<timer[1].startTime>>
depDuration(timer) == IF timer = NoTimer THEN <<>> ELSE <<timer[1].initialDurationMinutes>>

\* the body of useMemo
calculations(t, timer) ==
  IF ~timerUsable(timer)
  THEN [progress |-> 0, remainingTime |-> formatRemainingTime(0), remainingSeconds |-> 0,
        isExpired |-> FALSE, progressVariant |-> <<>>]
  ELSE LET remainingSeconds == getRemainingSeconds(t, timer[1].endTime, timer[1].startTime)
       IN [progress |-> calculateProgress(timer[1].initialDurationMinutes, remainingSeconds),
           remainingTime |-> formatRemainingTime(remainingSeconds),
           remainingSeconds |-> remainingSeconds,
           isExpired |-> isTimerExpired(remainingSeconds),
           progressVariant |-> <<calculateProgressVariant(remainingSeconds)>>]

\* useState(Date.now()) and useRef(false), before the first render's effects
newHook(t) ==
  [currentTimestamp |-> t, previousExpiredRef |-> FALSE, hasInitializedRef |-> FALSE,
   calculations |-> calculations(t, NoTimer), interval |-> <<>>, played |-> 0]

\* previousExpiredRef left at false, whatever the timer
initEffectUninitialised(h, t, timer) ==
  IF ~h.hasInitializedRef /\ timerUsable(timer)
  THEN [h EXCEPT !.hasInitializedRef = TRUE]
  ELSE IF ~timerOn(timer) THEN [h EXCEPT !.hasInitializedRef = FALSE]
  ELSE h
\* the first effect: previousExpiredRef initialised from the timer
initEffect(h, t, timer) ==
  IF ~h.hasInitializedRef /\ timerUsable(timer)
  THEN [h EXCEPT !.previousExpiredRef =
                   isTimerExpired(getRemainingSeconds(t, timer[1].endTime, timer[1].startTime)),
                 !.hasInitializedRef = TRUE]
  ELSE IF ~timerOn(timer) THEN [h EXCEPT !.hasInitializedRef = FALSE]
  ELSE h

\* the second effect, after the cleanup of its previous run
intervalEffect(h, t, timer) ==
  IF ~timerUsable(timer)
  THEN [h EXCEPT !.previousExpiredRef = FALSE, !.interval = <<>>]
  ELSE [h EXCEPT !.interval = <<t + HOOK_INTERVAL_MS>>]

\* the flag left alone while the timer stays expired
soundEffectKeepsFlag(h) ==
  IF h.calculations.isExpired /\ ~h.previousExpiredRef
  THEN [h EXCEPT !.played = h.played + 1]
  ELSE IF ~h.calculations.isExpired THEN [h EXCEPT !.previousExpiredRef = FALSE]
  ELSE h
\* the flag kept once it is set
soundEffectNeverResets(h) ==
  IF h.calculations.isExpired /\ ~h.previousExpiredRef
  THEN [h EXCEPT !.played = h.played + 1, !.previousExpiredRef = TRUE]
  ELSE h
\* the third effect: playTimerExpiredSound on the edge
soundEffect(h) ==
  IF h.calculations.isExpired /\ ~h.previousExpiredRef
  THEN [h EXCEPT !.played = h.played + 1, !.previousExpiredRef = TRUE]
  ELSE IF ~h.calculations.isExpired THEN [h EXCEPT !.previousExpiredRef = FALSE]
  ELSE h

\* one render of the hook at time t with the state h of the previous
\* render, the timer of the previous render and the new timer and
\* timestamp; mounting is the first render
useTimerCalculations(h, mounting, previous, timer, t, timestamp) ==
  LET activeChanged == depIsActive(timer) # depIsActive(previous)
      endChanged == depEndTime(timer) # depEndTime(previous)
      startChanged == depStartTime(timer) # depStartTime(previous)
      durationChanged == depDuration(timer) # depDuration(previous)
      memo == IF \/ mounting \/ activeChanged \/ endChanged \/ durationChanged
                 \/ timestamp # h.currentTimestamp
              THEN calculations(t, timer)
              ELSE h.calculations
      expiredChanged == memo.isExpired # h.calculations.isExpired
      h0 == [h EXCEPT !.currentTimestamp = timestamp, !.calculations = memo]
      h1 == IF mounting \/ activeChanged \/ endChanged \/ startChanged
            THEN initEffect(h0, t, timer) ELSE h0
      h2 == IF mounting \/ activeChanged \/ endChanged
            THEN intervalEffect(h1, t, timer) ELSE h1
  IN IF mounting \/ expiredChanged THEN soundEffect(h2) ELSE h2

\* the cards on screen: the cards of the sections of the list
renderedCards(secs, map) ==
  UNION {{<<secs[i].id, MapGetOrEmpty(map, secs[i].id)[j].id>> :
            j \in 1..Len(MapGetOrEmpty(map, secs[i].id))} : i \in 1..Len(secs)}

timerAt(map, k) == cardAt(map, k[1], k[2]).timer

\* the render that follows a change of the board: a card that was on screen
\* renders again, a new card mounts, a removed card unmounts
renderCards(hs, t, oldMap, newSecs, newMap) ==
  [k \in renderedCards(newSecs, newMap) |->
     IF k \in DOMAIN hs
     THEN useTimerCalculations(hs[k], FALSE, timerAt(oldMap, k), timerAt(newMap, k), t,
                               hs[k].currentTimestamp)
     ELSE useTimerCalculations(newHook(t), TRUE, NoTimer, timerAt(newMap, k), t, t)]

\* the first render of every card after the page has loaded
mountCards(t, newSecs, newMap) ==
  [k \in renderedCards(newSecs, newMap) |->
     useTimerCalculations(newHook(t), TRUE, NoTimer, timerAt(newMap, k), t, t)]

(***************************************************************************)
(* SpecHook: one section, its cards and their hooks, under the timer       *)
(* handlers, the hooks' intervals, a reload of the page and the            *)
(* passage of time.  The store's tick is left out: it changes no timer,    *)
(* and the hook reads nothing else of the card.  Time passes in steps of   *)
(* one interval of the hook, of a second and of a minute; an interval      *)
(* callback runs at its due time or later, as the browser schedules it.    *)
(***************************************************************************)
HookSections == {1}
HookCards == 1..MaxHookCards
HookDurations == {1}
HookMinutes == {0 - 1, 1}
\* a range that ended a minute ago and one that ends within the next second
HookRanges ==
  {<<StartNow - 2 * MS_PER_MINUTE, StartNow - MS_PER_MINUTE + HOOK_INTERVAL_MS>>,
   <<StartNow - MS_PER_MINUTE, StartNow + HOOK_INTERVAL_MS>>}
HookSteps == {HOOK_INTERVAL_MS, MS_PER_SECOND, MS_PER_MINUTE}

\* the instants the clock may show: so many intervals, seconds and minutes
\* after the start
hookInstant(t) ==
  LET d == t - StartNow
  IN /\ d \div MS_PER_MINUTE <= MaxHookMinutes
     /\ (d % MS_PER_MINUTE) \div MS_PER_SECOND <= MaxHookSeconds
     /\ (d % MS_PER_SECOND) \div HOOK_INTERVAL_MS <= MaxHookTicks

playedInBounds(hs) == \A k \in DOMAIN hs : hs[k].played <= MaxPlayed

HookStoreHandler ==
  \/ (generateNextId(SectionIdsOf(sections)) \in HookSections /\ handleAddSection)
  \/ AddCard({secs \in HookSections : MapHas(cardsBySection, secs)}, MaxHookCards)
  \/ StartTimer(HookSections, HookCards, HookDurations, MaxHookTimers)
  \/ StartTimerWithDates(HookSections, HookCards, HookRanges, MaxHookTimers)
  \/ UpdateTimerDates(HookSections, HookCards, HookRanges)
  \/ \E s \in HookSections, c \in HookCards, m \in HookMinutes :
       /\ handleAddTimeToTimer(s, c, m)
       /\ cardExists(cardsBySection, s, c)
       /\ TimerIsActive(cardAt(cardsBySection, s, c)) =>
            Abs(TimerOf(cardAt(cardsBySection, s, c)).initialDurationMinutes + m)
              <= MaxHookDuration
  \/ ClearTimer(HookSections, HookCards)

HookHandler ==
  /\ HookStoreHandler
  /\ hooks' = renderCards(hooks, now, cardsBySection, sections', cardsBySection')
  /\ playedInBounds(hooks')
  /\ UNCHANGED <<now, persistenceVars, calc>>

\* the interval callback of one card's hook: setCurrentTimestamp(Date.now())
\* and the render it causes
HookInterval ==
  \E k \in DOMAIN hooks :
    /\ hooks[k].interval # <<>>
    /\ hooks[k].interval[1] <= now
    /\ hooks' = [hooks EXCEPT ![k] =
                   useTimerCalculations([hooks[k] EXCEPT !.interval = <<now + HOOK_INTERVAL_MS>>],
                                        FALSE, timerAt(cardsBySection, k),
                                        timerAt(cardsBySection, k), now, now)]
    /\ playedInBounds(hooks')
    /\ last' = OpRecord("hookInterval", 0, 0, 0, hooks[k].calculations.isExpired,
                        NoTimer, NoTimer)
    /\ UNCHANGED <<sections, cardsBySection, now, persistenceVars, calc>>

\* the page closed and opened again: the saved board loaded, every card
\* mounted anew
HookReload ==
  /\ reload
  /\ hooks' = mountCards(now, sections', cardsBySection')
  /\ UNCHANGED <<now, persistenceVars, calc>>

HookAdvance ==
  /\ \E step \in HookSteps :
       /\ hookInstant(now + step)
       /\ now' = now + step
  /\ last' = Op0("advance")
  /\ UNCHANGED <<sections, cardsBySection, persistenceVars, viewVars>>

NextHook == HookHandler \/ HookInterval \/ HookReload \/ HookAdvance

SpecHook == InitBoard /\ [][NextHook]_vars

(***************************************************************************)
(* SpecSwapHook: one section with two cards and their hooks, under the     *)
(* start of a timer (running, or given a range that has ended or ends      *)
(* within the next interval), the swap, the hooks' intervals and the       *)
(* passage of time in steps of one interval.                               *)
(***************************************************************************)
SwapHookCards == 1..MaxSwapHookCards

SwapHookStoreHandler ==
  \/ (generateNextId(SectionIdsOf(sections)) \in HookSections /\ handleAddSection)
  \/ AddCard({secs \in HookSections : MapHas(cardsBySection, secs)}, MaxSwapHookCards)
  \/ StartTimer(HookSections, SwapHookCards, HookDurations, MaxSwapHookTimers)
  \/ StartTimerWithDates(HookSections, SwapHookCards, HookRanges, MaxSwapHookTimers)
  \/ SwapCardTimers(HookSections, SwapHookCards)

\* a swap that returns prev causes no render
SwapHookHandler ==
  /\ SwapHookStoreHandler
  /\ hooks' = IF last'.op = "swap" /\ ~last'.found THEN hooks
              ELSE renderCards(hooks, now, cardsBySection, sections', cardsBySection')
  /\ playedInBounds(hooks')
  /\ UNCHANGED <<now, persistenceVars, calc>>

SwapHookAdvance ==
  /\ now + HOOK_INTERVAL_MS <= StartNow + MaxSwapHookTicks * HOOK_INTERVAL_MS
  /\ now' = now + HOOK_INTERVAL_MS
  /\ last' = Op0("advance")
  /\ UNCHANGED <<sections, cardsBySection, persistenceVars, viewVars>>

NextSwapHook == SwapHookHandler \/ HookInterval \/ SwapHookAdvance

SpecSwapHook == InitBoard /\ [][NextSwapHook]_vars

(***************************************************************************)
(* SpecFuture: one card whose timer is given ranges of whole minutes that  *)
(* start after the page was opened (in order, reversed and empty), as the  *)
(* time dialog builds them, under the tick and the passage of time in      *)
(* steps of a second and of a minute, until both ends of every range are   *)
(* behind.                                                                 *)
(***************************************************************************)
FutureSections == {1}
FutureCards == 1..MaxFutureCards
FutureInstants == {StartNow + MS_PER_MINUTE, StartNow + 2 * MS_PER_MINUTE}
FutureRanges == FutureInstants \X FutureInstants
FutureSteps == {MS_PER_SECOND, MS_PER_MINUTE}

futureInstant(t) ==
  /\ (t - StartNow) \div MS_PER_MINUTE <= MaxFutureMinutes
  /\ ((t - StartNow) % MS_PER_MINUTE) \div MS_PER_SECOND <= MaxFutureSeconds

FutureStoreHandler ==
  \/ (generateNextId(SectionIdsOf(sections)) \in FutureSections /\ handleAddSection)
  \/ AddCard({secs \in FutureSections : MapHas(cardsBySection, secs)}, MaxFutureCards)
  \/ StartTimerWithDates(FutureSections, FutureCards, FutureRanges, MaxFutureCards)
  \/ UpdateTimerDates(FutureSections, FutureCards, FutureRanges)
  \/ ClearTimer(FutureSections, FutureCards)

FutureHandler == FutureStoreHandler /\ UNCHANGED <<now, persistenceVars, viewVars>>

FutureAdvance ==
  /\ \E step \in FutureSteps :
       /\ futureInstant(now + step)
       /\ now' = now + step
  /\ last' = Op0("advance")
  /\ UNCHANGED <<sections, cardsBySection, persistenceVars, viewVars>>

NextFuture == FutureHandler \/ BoardTick \/ FutureAdvance

SpecFuture == InitBoard /\ [][NextFuture]_vars

(***************************************************************************)
(* Properties of the swap among ticks, saves and queries (Spec)            *)
(***************************************************************************)
\* the positions of the cards of a Map or of a stored array of entries
cardPositions(map) ==
  UNION {{<<i, j>> : j \in 1..Len(map[i][2])} : i \in 1..Len(map)}
\* the number of cards that hold the given timer (NoTimer: that hold none)
holders(map, timer) ==
  Cardinality({p \in cardPositions(map) : map[p[1]][2][p[2]].timer = timer})
timerValues(map) == {map[p[1]][2][p[2]].timer : p \in cardPositions(map)}
\* every timer is on as many cards of b as of a
sameTimers(a, b) ==
  \A timer \in timerValues(a) \cup timerValues(b) : holders(a, timer) = holders(b, timer)
holdersInView(view, timer) ==
  Cardinality({i \in 1..Len(view) : view[i].card.timer = timer})
sameTimersInView(a, b) ==
  \A timer \in {a[i].card.timer : i \in 1..Len(a)} \cup {b[i].card.timer : i \in 1..Len(b)} :
    holdersInView(a, timer) = holdersInView(b, timer)
noOrphanKeys(secs, map) ==
  \A i \in 1..Len(map) : \E k \in 1..Len(secs) : secs[k].id = map[i][1]

\* C2: a swap is one transition.  Across a swap, a tick or a save, in any
\* interleaving, every timer is on as many cards after the step as before:
\* none is on both cards of a swap, none on neither.  The same holds for
\* what getAllCards returns when every key is a section of the list, the
\* state an armed save will write is the board of the moment, and a blob
\* just written holds every timer on as many cards as the board does.
SwapIsOneTransition ==
  [][/\ last'.op \in {"swap", "tick", "save"} =>
          sameTimers(cardsBySection, cardsBySection')
     /\ (last'.op = "swap" /\ noOrphanKeys(sections, cardsBySection)) =>
          sameTimersInView(getAllCards(sections, cardsBySection),
                           getAllCards(sections', cardsBySection'))
     /\ saveTimeoutRef' # <<>> =>
          saveTimeoutRef'[1].state
            = [sections |-> sections', cardsBySection |-> cardsBySection']
     /\ (last'.op = "save" /\ last'.found) =>
          /\ localStorage' # NoBlob
          /\ sameTimers(localStorage'[1].cardsBySection, cardsBySection')
    ]_vars

\* after a write and a tick, a swap across two sections has moved a timer
\* to the other card: the stored blob still shows it on the first card, the
\* board and the armed save show it on the second
SwapIsOneTransitionWitness ==
  /\ last.op = "swap"
  /\ last.found
  /\ last.n = 2
  /\ last.pre1 # last.pre2
  /\ intervalRef # <<>>
  /\ intervalRef[1] > StartNow + TICK_MS
  /\ saveTimeoutRef # <<>>
  /\ loadState(localStorage) # <<>>
  /\ activeTimerCount(cardsBySection) = 1
  /\ activeTimerCount(localStorage[1].cardsBySection) = 1
  /\ \E s1 \in SectionIds, s2 \in SectionIds :
       /\ s1 # s2
       /\ cardExists(cardsBySection, s1, 1)
       /\ cardExists(cardsBySection, s2, 1)
       /\ HasTimer(cardAt(cardsBySection, s2, 1))
       /\ cardExists(MapFromEntries(localStorage[1].cardsBySection), s1, 1)
       /\ HasTimer(cardAt(MapFromEntries(localStorage[1].cardsBySection), s1, 1))

(***************************************************************************)
(* Properties of the board (SpecBoard)                                     *)
(***************************************************************************)
lastCardOf(map, sectionId) ==
  MapGetOrEmpty(map, sectionId)[Len(MapGetOrEmpty(map, sectionId))]
pairwiseDistinct(ids) == \A i, j \in 1..Len(ids) : ids[i] = ids[j] => i = j
\* newId is one more than the highest of ids, 1 when there is none
isMaxPlusOne(ids, newId) ==
  IF Len(ids) = 0 THEN newId = 1
  ELSE /\ \E i \in 1..Len(ids) : ids[i] + 1 = newId
       /\ \A i \in 1..Len(ids) : ids[i] < newId

\* C5: every section id in sections is a key of cardsBySection, possibly
\* mapped to an empty list, in every state reachable from the empty board.
SectionIdsAreKeys ==
  \A i \in 1..Len(sections) : MapHas(cardsBySection, sections[i].id)

\* a section added after a deletion whose key maps to an empty list
SectionIdsAreKeysWitness ==
  /\ last.op = "addSection"
  /\ last.n = 1
  /\ Len(sections) = MaxSections
  /\ MapHas(cardsBySection, sections[Len(sections)].id)
  /\ MapGetOrEmpty(cardsBySection, sections[Len(sections)].id) = <<>>

\* C6: deleteSection(id) leaves no section with that id and no key id in
\* cardsBySection; every other section, in its order, and every other key
\* with its card list are unchanged.
DeleteSectionCascades ==
  [][\A id \in SectionIds :
       (last'.op = "deleteSection" /\ handleDeleteSection(id)) =>
         /\ \A i \in 1..Len(sections') : sections'[i].id # id
         /\ ~MapHas(cardsBySection', id)
         /\ sections' = SelectSeq(sections, LAMBDA x : x.id # id)
         /\ \A k \in SectionIds \ {id} :
              /\ MapHas(cardsBySection', k) <=> MapHas(cardsBySection, k)
              /\ MapGetOrEmpty(cardsBySection', k) = MapGetOrEmpty(cardsBySection, k)
         /\ MapKeys(cardsBySection') = SelectSeq(MapKeys(cardsBySection), LAMBDA k : k # id)
    ]_vars

\* a section holding a timer was deleted and another section with a card
\* survives
DeleteSectionCascadesWitness ==
  /\ last.op = "deleteSection"
  /\ last.c1 >= 1
  /\ Len(sections) = 1
  /\ Len(MapGetOrEmpty(cardsBySection, sections[1].id)) >= 1
  /\ Len(cardsBySection) = 1

\* C7: the ids of the cards of each section's list are pairwise distinct and
\* the ids in sections are pairwise distinct.
IdsUnique ==
  /\ pairwiseDistinct(SectionIdsOf(sections))
  /\ \A i \in 1..Len(cardsBySection) : pairwiseDistinct(CardIdsOf(cardsBySection[i][2]))

\* a card re-added after a deletion, in a board where two sections both hold
\* a card with id 1
IdsUniqueWitness ==
  /\ last.op = "addCard"
  /\ last.n = 1
  /\ Len(cardsBySection) = 2
  /\ \A i \in 1..Len(cardsBySection) :
       \E j \in 1..Len(cardsBySection[i][2]) : cardsBySection[i][2][j].id = 1
  /\ \E i \in 1..Len(cardsBySection) : Len(cardsBySection[i][2]) = MaxCards

\* C8 as stated: a card (section) added directly after the deletion of the
\* highest id of its section (of sections) gets the id that was just freed.
FreedIdReassigned ==
  /\ (last.op = "addCard" /\ last.n = 1) => lastCardOf(cardsBySection, last.s1).id = last.c1
  /\ (last.op = "addSection" /\ last.n = 1) => sections[Len(sections)].id = last.s1

\* C8 amended: a new id is one more than the highest id of the current
\* collection, 1 when it is empty; added directly after the deletion of the
\* highest id, it is never above the freed id and it is the freed id when the
\* id below the freed one is still in the collection or the freed id is 1.
IdAssignedMaxPlusOne ==
  [][/\ \A s \in SectionIds :
          (last'.op = "addCard" /\ handleAddCard(s)) =>
            LET old == CardIdsOf(MapGetOrEmpty(cardsBySection, s))
                newId == lastCardOf(cardsBySection', s).id
            IN /\ Len(MapGetOrEmpty(cardsBySection', s)) = Len(old) + 1
               /\ isMaxPlusOne(old, newId)
               /\ (last.op = "deleteCard" /\ last.n = 1 /\ last.s1 = s) =>
                    /\ newId <= last.c1
                    /\ ((last.c1 = 1 \/ \E i \in 1..Len(old) : old[i] = last.c1 - 1)
                          => newId = last.c1)
     /\ (last'.op = "addSection" /\ handleAddSection) =>
          LET old == SectionIdsOf(sections)
              newId == sections'[Len(sections')].id
          IN /\ Len(sections') = Len(old) + 1
             /\ isMaxPlusOne(old, newId)
             /\ (last.op = "deleteSection" /\ last.n = 1) =>
                  /\ newId <= last.s1
                  /\ ((last.s1 = 1 \/ \E i \in 1..Len(old) : old[i] = last.s1 - 1)
                        => newId = last.s1)
    ]_vars

\* the card with the highest id 2 was deleted and the card added next got id 2
IdAssignedMaxPlusOneWitness ==
  /\ last.op = "addCard"
  /\ last.n = 1
  /\ last.c1 = MaxCards
  /\ lastCardOf(cardsBySection, last.s1).id = last.c1
  /\ Len(MapGetOrEmpty(cardsBySection, last.s1)) = MaxCards

(***************************************************************************)
(* Properties of the swap (SpecSwap)                                       *)
(***************************************************************************)
\* C1: a swap of two existing cards leaves card A with the timer card B had
\* and card B with the timer card A had (an absent timer as absent), inside
\* one section and across two; the sections, the keys, the order of every
\* list, the id and name of every card and every other card are unchanged.
SwapExchangesTimers ==
  [][\A s1 \in SectionIds, s2 \in SectionIds, c1 \in CardIds, c2 \in CardIds :
       (/\ last'.op = "swap"
        /\ swapFound(cardsBySection, s1, c1, s2, c2)
        /\ handleSwapCardTimers(s1, c1, s2, c2)) =>
         /\ cardAt(cardsBySection', s1, c1).timer = cardAt(cardsBySection, s2, c2).timer
         /\ cardAt(cardsBySection', s2, c2).timer = cardAt(cardsBySection, s1, c1).timer
         /\ sections' = sections
         /\ MapKeys(cardsBySection') = MapKeys(cardsBySection)
         /\ \A i \in 1..Len(cardsBySection) :
              LET k == cardsBySection[i][1]
                  old == cardsBySection[i][2]
                  new == cardsBySection'[i][2]
              IN /\ Len(new) = Len(old)
                 /\ \A j \in 1..Len(old) :
                      /\ new[j].id = old[j].id
                      /\ new[j].name = old[j].name
                      /\ (~(k = s1 /\ old[j].id = c1) /\ ~(k = s2 /\ old[j].id = c2))
                           => new[j] = old[j]
    ]_vars

\* two different timers were exchanged across two sections and each is now
\* on the other card
SwapExchangesTimersWitness ==
  /\ last.op = "swap"
  /\ last.found
  /\ last.n = 2
  /\ last.pre1 # NoTimer
  /\ last.pre2 # NoTimer
  /\ last.pre1 # last.pre2
  /\ \E s1 \in SectionIds, s2 \in SectionIds, c1 \in CardIds, c2 \in CardIds :
       /\ s1 # s2
       /\ cardExists(cardsBySection, s1, c1)
       /\ cardExists(cardsBySection, s2, c2)
       /\ cardAt(cardsBySection, s1, c1).timer = last.pre2
       /\ cardAt(cardsBySection, s2, c2).timer = last.pre1

\* C3: a swap in which a card is not found in its section, the section id
\* being known or not, leaves sections and cardsBySection as they were.
SwapMissIsNoOp ==
  [][\A s1 \in SectionIds, s2 \in SectionIds, c1 \in CardIds, c2 \in CardIds :
       (/\ last'.op = "swap"
        /\ ~swapFound(cardsBySection, s1, c1, s2, c2)
        /\ handleSwapCardTimers(s1, c1, s2, c2)) =>
         /\ sections' = sections
         /\ cardsBySection' = cardsBySection
    ]_vars

\* a swap naming an unknown section id was asked of a board that holds a timer
SwapMissIsNoOpWitness ==
  /\ last.op = "swap"
  /\ ~last.found
  /\ last.n = 3
  /\ activeTimerCount(cardsBySection) >= 1
  /\ Len(cardsBySection) < MaxSections

\* C4: for any two existing cards, a swap followed by the reverse swap, at
\* the same or a later instant, gives every card the timer it had.
SwapRoundTrip ==
  \A s1 \in SectionIds, s2 \in SectionIds, c1 \in CardIds, c2 \in CardIds :
    swapFound(cardsBySection, s1, c1, s2, c2) =>
      \A t \in {now, now + ClockStep} :
        LET once == swapUpdater(now, cardsBySection, s1, c1, s2, c2)
            twice == swapUpdater(t, once, s2, c2, s1, c1)
        IN /\ Len(twice) = Len(cardsBySection)
           /\ \A i \in 1..Len(cardsBySection) :
                /\ twice[i][1] = cardsBySection[i][1]
                /\ Len(twice[i][2]) = Len(cardsBySection[i][2])
                /\ \A j \in 1..Len(cardsBySection[i][2]) :
                     twice[i][2][j].timer = cardsBySection[i][2][j].timer

\* a timer was exchanged with an absent one, and the reverse swap from here
\* puts both back
SwapRoundTripWitness ==
  /\ last.op = "swap"
  /\ last.found
  /\ last.pre1 # NoTimer
  /\ last.pre2 = NoTimer
  /\ \E s1 \in SectionIds, s2 \in SectionIds, c1 \in CardIds, c2 \in CardIds :
       /\ <<s1, c1>> # <<s2, c2>>
       /\ cardExists(cardsBySection, s1, c1)
       /\ cardExists(cardsBySection, s2, c2)
       /\ cardAt(cardsBySection, s1, c1).timer = last.pre2
       /\ cardAt(cardsBySection, s2, c2).timer = last.pre1
       /\ LET back == swapUpdater(now, cardsBySection, s2, c2, s1, c1)
          IN /\ cardAt(back, s1, c1).timer = last.pre1
             /\ cardAt(back, s2, c2).timer = last.pre2

(***************************************************************************)
(* Properties of the timers (SpecTimers)                                   *)
(***************************************************************************)
AlgebraMinutes == (0 - MaxDuration - 1)..(MaxDuration + 1)

\* C9: every card's timer is absent, or active with a start and an end
\* instant, after every store operation, tick and reload of a saved board.
TimerActiveWithInstants ==
  \A i \in 1..Len(cardsBySection) :
    \A j \in 1..Len(cardsBySection[i][2]) :
      LET card == cardsBySection[i][2][j]
      IN \/ card.timer = NoTimer
         \/ /\ Len(card.timer) = 1
            /\ TimerOf(card).isActive
            /\ TimerOf(card).startTime # NullTime
            /\ TimerOf(card).endTime # NullTime

\* a reloaded board on which a card holds an expired timer that was not cleared
TimerActiveWithInstantsWitness ==
  /\ last.op = "reload"
  /\ \E i \in 1..Len(cardsBySection) :
       \E j \in 1..Len(cardsBySection[i][2]) :
         /\ HasTimer(cardsBySection[i][2][j])
         /\ TimerOf(cardsBySection[i][2][j]).isActive
         /\ TimerOf(cardsBySection[i][2][j]).endTime < now

\* C10: addTimeToTimer with m minutes on a card with an active timer moves
\* endTime by m minutes and initialDurationMinutes by m and keeps startTime
\* and isActive; on every timer of the board two extensions by a and b equal
\* one by a + b, and an extension by m followed by one by -m restores it.
AddTimeShiftsExactly ==
  [][\A s \in SectionIds, c \in CardIds, m \in AddMinutes :
       (/\ last'.op = "addTimeToTimer"
        /\ last'.found
        /\ cardExists(cardsBySection, s, c)
        /\ TimerIsActive(cardAt(cardsBySection, s, c))
        /\ handleAddTimeToTimer(s, c, m)) =>
         \A old \in {TimerOf(cardAt(cardsBySection, s, c))},
            new \in {TimerOf(cardAt(cardsBySection', s, c))} :
            /\ HasTimer(cardAt(cardsBySection', s, c))
            /\ new.endTime = old.endTime + m * MS_PER_MINUTE
            /\ new.initialDurationMinutes = old.initialDurationMinutes + m
            /\ new.startTime = old.startTime
            /\ new.isActive = old.isActive
            /\ \A a \in AlgebraMinutes, b \in AlgebraMinutes :
                 /\ addTimeToTimer(addTimeToTimer(new, a), b) = addTimeToTimer(new, a + b)
                 /\ addTimeToTimer(addTimeToTimer(new, a), 0 - a) = new
            /\ addTimeToTimer(new, 0 - m) = old
    ]_vars

\* a timer was shortened to a negative duration and an end in the past
AddTimeShiftsExactlyWitness ==
  /\ last.op = "addTimeToTimer"
  /\ last.found
  /\ \E i \in 1..Len(cardsBySection) :
       \E j \in 1..Len(cardsBySection[i][2]) :
         /\ HasTimer(cardsBySection[i][2][j])
         /\ TimerOf(cardsBySection[i][2][j]).initialDurationMinutes
              = last.pre1[1].initialDurationMinutes - 1
         /\ TimerOf(cardsBySection[i][2][j]).initialDurationMinutes < 0
         /\ TimerOf(cardsBySection[i][2][j]).endTime < now


(***************************************************************************)
(* C11: handleAddTimeToTimer and handleUpdateTimerDates addressed to an    *)
(* existing card that holds no active timer change nothing: the card keeps *)
(* its absent timer and its progressValue, no other card and no section    *)
(* changes, and no timer comes into being.                                 *)
(***************************************************************************)
TimerlessEditIsNoOp ==
  [][(/\ last'.op \in {"addTimeToTimer", "updateTimerDates"}
      /\ last'.n = 1
      /\ ~last'.found)
       => /\ cardsBySection' = cardsBySection
          /\ sections' = sections
          /\ timerValues(cardsBySection') = timerValues(cardsBySection)]_vars

\* one of the two handlers has met a card without a timer while another card holds one
TimerlessEditIsNoOpWitness ==
  /\ last.op \in {"addTimeToTimer", "updateTimerDates"}
  /\ last.n = 1
  /\ ~last.found
  /\ activeTimerCount(cardsBySection) = 1
  /\ \E i \in 1..Len(cardsBySection) :
       \E j \in 1..Len(cardsBySection[i][2]) : ~HasTimer(cardsBySection[i][2][j])


ProgressVariantBands ==
  calc.variant # <<>> =>
    \A r \in {calc.remainingSeconds}, v \in {calc.variant[1]} :
      /\ r = 0 => v = "default"
      /\ r < 0 => v = "destructive"
      /\ (r >= 1 /\ r <= 659) => v = "destructive"
      /\ (r >= 660 /\ r <= 1259) => v = "orange"
      /\ (r >= 1260 /\ r <= 1859) => v = "warning"
      /\ r >= 1860 => v = "default"

\* the last second of the orange band
ProgressVariantBandsWitness ==
  /\ calc.variant = <<"orange">>
  /\ calc.remainingSeconds = 1259


(***************************************************************************)
(* C13: every card's progressValue lies in 0..200, and right after the     *)
(* progress of all cards has been recomputed (a tick, a reload) a card     *)
(* whose active timer is overdue (remaining seconds < 0) has a             *)
(* progressValue above 100 and a card whose active timer is not overdue    *)
(* has one of at most 100.                                                 *)
(***************************************************************************)
ProgressTracksOverdue ==
  \A p \in cardPositions(cardsBySection) :
    \A card \in {cardsBySection[p[1]][2][p[2]]} :
      /\ card.progressValue >= 0
      /\ card.progressValue <= 200 * PROGRESS_UNITS
      /\ (last.op \in {"tick", "reload"} /\ TimerIsActive(card)) =>
           \A r \in {getRemainingSeconds(now, TimerOf(card).endTime, TimerOf(card).startTime)} :
             /\ r < 0 => card.progressValue > 100 * PROGRESS_UNITS
             /\ r >= 0 => card.progressValue <= 100 * PROGRESS_UNITS


(***************************************************************************)
(* C15: a tick changes nothing but the progressValue of the cards whose    *)
(* timer is active, which becomes the progress of that timer at the time   *)
(* of the tick; the sections, the keys of cardsBySection and their order,  *)
(* the cards of each key and their order, every id, name and timer stay,   *)
(* and a card without an active timer is left as it was.                   *)
(***************************************************************************)
TickChangesProgressOnly ==
  [][last'.op = "tick" =>
       /\ sections' = sections
       /\ Len(cardsBySection') = Len(cardsBySection)
       /\ \A i \in 1..Len(cardsBySection) :
            /\ cardsBySection'[i][1] = cardsBySection[i][1]
            /\ Len(cardsBySection'[i][2]) = Len(cardsBySection[i][2])
            /\ \A j \in 1..Len(cardsBySection[i][2]) :
                 \A old \in {cardsBySection[i][2][j]}, new \in {cardsBySection'[i][2][j]} :
                   /\ new.id = old.id
                   /\ new.name = old.name
                   /\ new.timer = old.timer
                   /\ new.progressValue =
                        IF TimerIsActive(old)
                        THEN calculateProgress(
                               TimerOf(old).initialDurationMinutes,
                               getRemainingSeconds(now, TimerOf(old).endTime,
                                                   TimerOf(old).startTime))
                        ELSE old.progressValue]_vars

\* a tick after time has passed, on a board with a running timer part of
\* the way down and a card without a timer
TickChangesProgressOnlyWitness ==
  /\ last.op = "tick"
  /\ now > StartNow
  /\ \E p \in cardPositions(cardsBySection) :
       /\ TimerIsActive(cardsBySection[p[1]][2][p[2]])
       /\ cardsBySection[p[1]][2][p[2]].progressValue > 0
       /\ cardsBySection[p[1]][2][p[2]].progressValue < 100 * PROGRESS_UNITS
  /\ \E p \in cardPositions(cardsBySection) : ~HasTimer(cardsBySection[p[1]][2][p[2]])


(***************************************************************************)
(* Properties of the expiry sound (SpecHook)                               *)
(***************************************************************************)
\* the timer of card k is usable and expired at time t
expiredAt(t, map, k) ==
  /\ timerUsable(timerAt(map, k))
  /\ isTimerExpired(getRemainingSeconds(t, timerAt(map, k)[1].endTime,
                                        timerAt(map, k)[1].startTime))

(***************************************************************************)
(* C16: when an interval callback of a card's hook finds the timer expired *)
(* that the hook held for not expired, playTimerExpiredSound is called     *)
(* exactly once and the flag is set; when the hook already held it for     *)
(* expired, or finds it not expired, the callback calls it not at all.     *)
(* What the callback finds is whether the timer is expired at that time.   *)
(***************************************************************************)
ExpiryNotifiesOnce ==
  [][last'.op = "hookInterval" =>
       \A k \in DOMAIN hooks :
         \A old \in {hooks[k]}, new \in {hooks'[k]} :
           /\ new.currentTimestamp # old.currentTimestamp =>
                new.calculations.isExpired = expiredAt(now, cardsBySection, k)
           /\ (~old.calculations.isExpired /\ new.calculations.isExpired) =>
                /\ new.played = old.played + 1
                /\ new.previousExpiredRef
           /\ (old.calculations.isExpired \/ ~new.calculations.isExpired) =>
                new.played = old.played]_vars

\* a callback has found the timer expired again after the one call
ExpiryNotifiesOnceWitness ==
  /\ last.op = "hookInterval"
  /\ last.found
  /\ \E k \in DOMAIN hooks :
       /\ hooks[k].calculations.isExpired
       /\ hooks[k].currentTimestamp = now
       /\ hooks[k].played = 1

(***************************************************************************)
(* C17: when a hook first sees an active timer that is already expired     *)
(* (the card mounts with it after a load, or the timer is put on a card    *)
(* that had none) the flag is set and playTimerExpiredSound is not called; *)
(* in every state a hook that holds its timer for expired has the flag     *)
(* set, and no interval callback on such a hook calls it.                  *)
(***************************************************************************)
NoSoundOnFirstObservation ==
  /\ [][\A k \in DOMAIN hooks' :
          (/\ \/ k \notin DOMAIN hooks
              \/ last'.op = "reload"
              \/ timerAt(cardsBySection, k) = NoTimer
           /\ expiredAt(now, cardsBySection', k))
            => /\ hooks'[k].previousExpiredRef
               /\ hooks'[k].calculations.isExpired
               /\ hooks'[k].played = IF k \in DOMAIN hooks /\ last'.op # "reload"
                                     THEN hooks[k].played ELSE 0]_vars
  /\ [](\A k \in DOMAIN hooks :
          hooks[k].calculations.isExpired => hooks[k].previousExpiredRef)
  /\ [][\A k \in DOMAIN hooks :
          (last'.op = "hookInterval" /\ hooks[k].previousExpiredRef
             /\ hooks'[k].calculations.isExpired)
            => hooks'[k].played = hooks[k].played]_vars

\* a callback on a timer held for expired by a hook that has never called
\* playTimerExpiredSound
NoSoundOnFirstObservationWitness ==
  /\ last.op = "hookInterval"
  /\ last.found
  /\ \E k \in DOMAIN hooks :
       /\ hooks[k].calculations.isExpired
       /\ hooks[k].currentTimestamp = now
       /\ hooks[k].previousExpiredRef
       /\ hooks[k].played = 0

(***************************************************************************)
(* C18: when a handler (an extension, a rescheduling, a removal) leaves    *)
(* the timer of a card not expired that its hook held for expired, the     *)
(* flag is cleared and nothing is played; and when a hook that has played  *)
(* before finds a timer expired that it held for not expired, it plays     *)
(* exactly once more.                                                      *)
(***************************************************************************)
RearmedAfterChange ==
  [][\A k \in DOMAIN hooks :
       \A old \in {hooks[k]} :
         /\ (/\ last'.op \in {"addTimeToTimer", "updateTimerDates", "clearTimer"}
             /\ old.calculations.isExpired
             /\ ~expiredAt(now, cardsBySection', k))
              => /\ ~hooks'[k].previousExpiredRef
                 /\ ~hooks'[k].calculations.isExpired
                 /\ hooks'[k].played = old.played
         /\ (/\ last'.op = "hookInterval"
             /\ old.played >= 1
             /\ ~old.calculations.isExpired
             /\ hooks'[k].calculations.isExpired)
              => hooks'[k].played = old.played + 1]_vars

\* the second call, on the expiry that followed a change
RearmedAfterChangeWitness ==
  /\ last.op = "hookInterval"
  /\ ~last.found
  /\ \E k \in DOMAIN hooks :
       /\ hooks[k].calculations.isExpired
       /\ hooks[k].played = 2


(***************************************************************************)
(* C19: the write is a trailing debounce of the board mutations.  A        *)
(* handler that changes the board arms the one save timeout for 500 ms     *)
(* later with the board it has made, replacing the timeout armed before;   *)
(* nothing but a handler moves or replaces an armed timeout (a tick, the   *)
(* passage of time); the timeout fires when it is due, writes the board    *)
(* it holds and is gone.  So a burst of mutations less than 500 ms apart   *)
(* gives one write, 500 ms after the last of them, of the board after the  *)
(* last of them.                                                           *)
(***************************************************************************)
TrailingDebounce ==
  [][/\ (last'.op \notin {"mount", "tick", "save", "advance", "teardown", "restart"}
          /\ ~(last'.op = "swap" /\ ~last'.found))
         => saveTimeoutRef' = armSave(now, sections', cardsBySection')
     /\ last'.op \in {"tick", "advance"} => saveTimeoutRef' = saveTimeoutRef
     /\ last'.op = "save"
         => /\ saveTimeoutRef # <<>>
            /\ saveTimeoutRef[1].due = now
            /\ saveTimeoutRef' = <<>>
            /\ last'.found => localStorage' = serializeState(saveTimeoutRef[1].state)]_vars


(***************************************************************************)
(* C20: at mount the board stays the empty initial board when nothing is   *)
(* stored, when the stored blob does not parse and when its version is     *)
(* not the current one; in every other case the stored sections become     *)
(* the sections and the stored entries become cardsBySection, key by key   *)
(* and card by card (id, name, timer).  The mount completes in every case. *)
(***************************************************************************)
LoadAbsentOrReplaces ==
  [][last'.op = "mount" =>
       /\ phase' = "live"
       /\ IF \/ localStorage = NoBlob
             \/ localStorage[1].kind = "garbage"
             \/ localStorage[1].version # STORAGE_VERSION
          THEN /\ ~last'.found
               /\ sections' = <<>>
               /\ cardsBySection' = <<>>
          ELSE \A stored \in {localStorage[1]} :
                 /\ last'.found
                 /\ sections' = stored.sections
                 /\ Len(cardsBySection') = Len(stored.cardsBySection)
                 /\ \A i \in 1..Len(stored.cardsBySection) :
                      /\ cardsBySection'[i][1] = stored.cardsBySection[i][1]
                      /\ Len(cardsBySection'[i][2]) = Len(stored.cardsBySection[i][2])
                      /\ \A j \in 1..Len(stored.cardsBySection[i][2]) :
                           /\ cardsBySection'[i][2][j].id = stored.cardsBySection[i][2][j].id
                           /\ cardsBySection'[i][2][j].name = stored.cardsBySection[i][2][j].name
                           /\ cardsBySection'[i][2][j].timer
                                = stored.cardsBySection[i][2][j].timer]_vars

\* a mount that has loaded a stored board with a card
LoadAbsentOrReplacesWitness ==
  /\ last.op = "mount"
  /\ last.found
  /\ sections # <<>>
  /\ cardPositions(cardsBySection) # {}


(***************************************************************************)
(* C21: for every board the store reaches, the board saved and loaded      *)
(* again has the same sections in the same order and the same keys of      *)
(* cardsBySection in the same order, each with the same cards: same id,    *)
(* name and timer (all four fields, an absent timer absent).  Only         *)
(* progressValue may differ: it is the progress computed at the time of    *)
(* the load for a card with a timer and the saved value for a card         *)
(* without.                                                                *)
(***************************************************************************)
PersistenceRoundTrip ==
  \A loaded \in {reloadedState(now, [sections |-> sections,
                                     cardsBySection |-> cardsBySection])} :
    /\ loaded.sections = sections
    /\ MapKeys(loaded.cardsBySection) = MapKeys(cardsBySection)
    /\ \A i \in 1..Len(cardsBySection) :
         /\ Len(loaded.cardsBySection[i][2]) = Len(cardsBySection[i][2])
         /\ \A j \in 1..Len(cardsBySection[i][2]) :
              \A old \in {cardsBySection[i][2][j]}, new \in {loaded.cardsBySection[i][2][j]} :
                /\ new.id = old.id
                /\ new.name = old.name
                /\ new.timer = old.timer
                /\ new.progressValue = IF HasTimer(old)
                                       THEN calculateTimerProgress(now, old.timer)
                                       ELSE old.progressValue

\* a board loaded again after time has passed: one section, a card whose
\* running timer has a progress the load has computed anew, and a key that
\* is no section's
PersistenceRoundTripWitness ==
  /\ last.op = "reload"
  /\ now > StartNow
  /\ Len(sections) = 1
  /\ Len(cardsBySection) = 2
  /\ \E p \in cardPositions(cardsBySection) :
       /\ TimerIsActive(cardsBySection[p[1]][2][p[2]])
       /\ cardsBySection[p[1]][2][p[2]].progressValue
            = getRemainingSeconds(now, TimerOf(cardsBySection[p[1]][2][p[2]]).endTime,
                                  TimerOf(cardsBySection[p[1]][2][p[2]]).startTime)
       /\ cardsBySection[p[1]][2][p[2]].progressValue
            < getRemainingSeconds(StartNow, TimerOf(cardsBySection[p[1]][2][p[2]]).endTime,
                                  TimerOf(cardsBySection[p[1]][2][p[2]]).startTime)
  /\ \E p \in cardPositions(cardsBySection) : ~HasTimer(cardsBySection[p[1]][2][p[2]])


(***************************************************************************)
(* C22: a write that fails leaves the provider mounted and the sections,   *)
(* cardsBySection and the stored blob as they were, and the timeout is     *)
(* gone; and as long as nothing but the passage of time and ticks follows  *)
(* the failed write, no save timeout is armed, so that no further write is *)
(* attempted before the next handler arms one.                             *)
(***************************************************************************)
FailedWriteNotRetried ==
  [][/\ (last'.op = "save" /\ ~last'.found) =>
          /\ phase' = "live"
          /\ sections' = sections
          /\ cardsBySection' = cardsBySection
          /\ localStorage' = localStorage
          /\ saveTimeoutRef' = <<>>
     /\ (/\ \/ last.op = "save" /\ ~last.found
            \/ last.op = "advance" /\ last.n = 1
         /\ last'.op \in {"tick", "advance"}) =>
          saveTimeoutRef' = <<>>]_vars


(***************************************************************************)
(* C23: the unmount leaves neither the interval nor the save timeout       *)
(* armed, and from then on, while the provider is not mounted, no tick     *)
(* runs and no write is made: the stored blob stays as it was at the       *)
(* unmount, also when a handler had armed a save that was still pending.   *)
(***************************************************************************)
TeardownCancelsBoth ==
  [][/\ last'.op = "teardown" =>
          /\ intervalRef' = <<>>
          /\ saveTimeoutRef' = <<>>
     /\ phase \in {"down", "constructed"} =>
          /\ last'.op \notin {"tick", "save"}
          /\ localStorage' = localStorage
          /\ phase' \in {"down", "constructed"} =>
               (intervalRef' = <<>> /\ saveTimeoutRef' = <<>>)]_vars

\* an unmount that has cancelled the pending save of a section never written
TeardownCancelsBothWitness ==
  /\ last.op = "teardown"
  /\ last.found
  /\ phase = "down"
  /\ sections # <<>>
  /\ localStorage = NoBlob
  /\ saveTimeoutRef = <<>>


(***************************************************************************)
(* C24: no update is lost between handlers and ticks.  A tick works on the *)
(* board of the moment, whatever the handlers have made of it since the    *)
(* tick before: it keeps the sections, the keys, every card with its id,   *)
(* name and timer, and gives each card with an active timer the progress   *)
(* of that timer.  The save a handler arms holds the board the handler has *)
(* made, and a write that succeeds stores the board of the moment.         *)
(***************************************************************************)
NoLostUpdate ==
  [][/\ last'.op = "tick" =>
          /\ sections' = sections
          /\ MapKeys(cardsBySection') = MapKeys(cardsBySection)
          /\ \A i \in 1..Len(cardsBySection) :
               \A before \in {cardsBySection[i][2]}, after \in {cardsBySection'[i][2]} :
                 /\ CardIdsOf(after) = CardIdsOf(before)
                 /\ \A j \in 1..Len(before) :
                      /\ after[j].name = before[j].name
                      /\ after[j].timer = before[j].timer
                      /\ TimerIsActive(before[j]) =>
                           after[j].progressValue = calculateTimerProgress(now, before[j].timer)
     /\ last'.op \in {"addSection", "addCard", "startTimer"} =>
          /\ saveTimeoutRef' # <<>>
          /\ saveTimeoutRef'[1].state.sections = sections'
          /\ saveTimeoutRef'[1].state.cardsBySection = cardsBySection'
     /\ (last'.op = "save" /\ last'.found) =>
          localStorage' = serializeState([sections |-> sections,
                                          cardsBySection |-> cardsBySection])]_vars

\* a tick in the instant in which a timer was started, a second after the
\* mount: the timer is on the board with the progress the tick has computed,
\* the armed save holds it and the stored blob does not yet
NoLostUpdateWitness ==
  /\ last.op = "tick"
  /\ now = StartNow + TICK_MS
  /\ \E p \in cardPositions(cardsBySection) :
       /\ TimerIsActive(cardsBySection[p[1]][2][p[2]])
       /\ TimerOf(cardsBySection[p[1]][2][p[2]]).startTime = now
       /\ cardsBySection[p[1]][2][p[2]].progressValue = SECONDS_PER_MINUTE
  /\ saveTimeoutRef # <<>>
  /\ activeTimerCount(saveTimeoutRef[1].state.cardsBySection) = 1
  /\ loadState(localStorage) # <<>>
  /\ activeTimerCount(localStorage[1].cardsBySection) = 0


(***************************************************************************)
(* C25: a tick performs no I/O.  It writes nothing to the store, and it    *)
(* leaves the save timeout as it found it: none armed where none was,      *)
(* the armed one with its due time where one was.  So only                 *)
(* handlers (and the mount) arm the writes.                                *)
(***************************************************************************)
TickPerformsNoIO ==
  [][last'.op = "tick" =>
       /\ localStorage' = localStorage
       /\ saveTimeoutRef = <<>> => saveTimeoutRef' = <<>>
       /\ saveTimeoutRef # <<>> =>
            /\ saveTimeoutRef' # <<>>
            /\ saveTimeoutRef'[1].due = saveTimeoutRef[1].due]_vars


(***************************************************************************)
(* C26: the remaining seconds of an active timer are the whole seconds     *)
(* from now to endTime once startTime is reached, and the whole seconds    *)
(* from startTime to endTime, whatever the time, while now < startTime.    *)
(* While its start lies ahead a timer is not expired when endTime >=       *)
(* startTime and is expired, with negative remaining seconds, when endTime *)
(* < startTime, also when endTime lies ahead as well; and a tick leaves    *)
(* the progressValue of such a card as it was.                             *)
(***************************************************************************)
FutureStartHoldsFullSpan ==
  /\ [](\A p \in cardPositions(cardsBySection) :
          \A card \in {cardsBySection[p[1]][2][p[2]]} :
            TimerIsActive(card) =>
              \A timer \in {TimerOf(card)} :
                \A r \in {getRemainingSeconds(now, timer.endTime, timer.startTime)} :
                  /\ now >= timer.startTime =>
                       /\ Abs(r * MS_PER_SECOND - (timer.endTime - now)) < MS_PER_SECOND
                       /\ Abs(r * MS_PER_SECOND) <= Abs(timer.endTime - now)
                  /\ now < timer.startTime =>
                       /\ r * MS_PER_SECOND = timer.endTime - timer.startTime
                       /\ timer.endTime >= timer.startTime => ~isTimerExpired(r)
                       /\ timer.endTime < timer.startTime => (isTimerExpired(r) /\ r < 0))
  /\ [][last'.op = "tick" =>
          \A p \in cardPositions(cardsBySection) :
            \A card \in {cardsBySection[p[1]][2][p[2]]} :
              (TimerIsActive(card) /\ now < TimerOf(card).startTime) =>
                cardsBySection'[p[1]][2][p[2]].progressValue = card.progressValue]_vars

\* a tick, after time has passed, on a timer of one minute that has not
\* started: its progress is still that of the full minute
FutureStartHoldsFullSpanWitness ==
  /\ last.op = "tick"
  /\ now > StartNow
  /\ \E p \in cardPositions(cardsBySection) :
       \E card \in {cardsBySection[p[1]][2][p[2]]} :
         /\ TimerIsActive(card)
         /\ now < TimerOf(card).startTime
         /\ TimerOf(card).startTime < TimerOf(card).endTime
         /\ card.progressValue = SECONDS_PER_MINUTE


(***************************************************************************)
(* C27: normalizeTime(hours, minutes) keeps the amount of time: 60 times   *)
(* the hours it returns plus the minutes it returns is 60 * hours +        *)
(* minutes, for negative minutes too; and whenever |minutes| >= 60 the     *)
(* minutes it returns lie in 0..59.                                        *)
(***************************************************************************)
NormalizeKeepsAmount ==
  calc.normalized # <<>> =>
    \A result \in {calc.normalized[1]} :
      /\ toTotalMinutes(result.hours, result.minutes)
           = toTotalMinutes(calc.hours, calc.minutes)
      /\ Abs(calc.minutes) >= 60 => result.minutes \in 0..59


(***************************************************************************)
(* C28: in every state reached from the empty board every key of           *)
(* cardsBySection is the id of a section of sections, so that a card or    *)
(* timer handler addressed to an unknown or deleted section id has made    *)
(* no entry and every card is a card of a section.                         *)
(***************************************************************************)
NoOrphanEntries ==
  /\ noOrphanKeys(sections, cardsBySection)
  /\ Len(getAllCards(sections, cardsBySection)) = Cardinality(cardPositions(cardsBySection))


(***************************************************************************)
(* C29: a swap causes no expiry notification.  When a swap hands a card a  *)
(* timer that is expired and that the hook of the other card held for      *)
(* expired (it had played for it, or had set the flag at first sight), the *)
(* hook of the receiving card calls playTimerExpiredSound no further       *)
(* time, whether the receiving card held no timer, a running timer or an   *)
(* expired timer before.                                                   *)
(***************************************************************************)
SwapNotifiesNothing ==
  [][(last'.op = "swap" /\ last'.found) =>
       \A k \in DOMAIN hooks, k2 \in DOMAIN hooks :
         (/\ k2 # k
          /\ timerAt(cardsBySection', k) = timerAt(cardsBySection, k2)
          /\ expiredAt(now, cardsBySection, k2)
          /\ hooks[k2].calculations.isExpired
          /\ hooks[k2].previousExpiredRef)
           => hooks'[k].played = hooks[k].played]_vars


(***************************************************************************)
(* C30: the start of the page does not overwrite a stored board.  After    *)
(* the effects of the mount have found a board to load, the next step is   *)
(* the render of that board, with nothing written in between, and it       *)
(* replaces the save armed on the empty initial state by one that holds    *)
(* the loaded board.  Every write that succeeds stores the board of the    *)
(* moment, and it stores no fewer sections than the store held before it   *)
(* (no handler of this specification removes one): the empty initial board *)
(* is never written over a stored board.                                   *)
(***************************************************************************)
StartupKeepsStoredBoard ==
  [][/\ last.op = "mounting" =>
          /\ last'.op = "mount"
          /\ localStorage' = localStorage
          /\ saveTimeoutRef' # <<>>
          /\ saveTimeoutRef'[1].due = now + SAVE_DELAY_MS
          /\ saveTimeoutRef'[1].state.sections = localStorage[1].sections
          /\ saveTimeoutRef'[1].state.cardsBySection
               = recalculateLoaded(now, MapFromEntries(localStorage[1].cardsBySection))
     /\ (last'.op = "save" /\ last'.found) =>
          /\ localStorage'[1].sections = sections
          /\ MapKeys(localStorage'[1].cardsBySection) = MapKeys(cardsBySection)
          /\ loadState(localStorage) # <<>> =>
               Len(localStorage'[1].sections) >= Len(localStorage[1].sections)]_vars

\* the first write after a start that found a stored board: it holds the
\* loaded section and the section added since
StartupKeepsStoredBoardWitness ==
  /\ last.op = "save"
  /\ last.found
  /\ now = StartNow + SAVE_DELAY_MS
  /\ intervalRef = <<StartNow + TICK_MS>>
  /\ Len(sections) = 2
  /\ sections[1].name = "1"
  /\ localStorage[1].sections = sections

====
